---- MODULE Spec2Model ----
(***************************************************************************)
(* A model of color-eyre's section model, ordered aggregation (the Help    *)
(* trait and context_from) and report rendering.                           *)
(*                                                                         *)
(* Text is a sequence of tokens.  A token is one whitespace character      *)
(* (" " or "\n") or a maximal run of non-whitespace characters, so that    *)
(* indentation, trimming and line splitting act on the text the way the    *)
(* code acts on bytes.                                                     *)
(***************************************************************************)
EXTENDS Integers, Sequences, FiniteSets, TLC

VARIABLES
    res,        \* the Result value in flight: Ok(v) or Err(e)
    calls,      \* number of times a lazy closure has been invoked
    captures,   \* number of times a Handler (context store) was created
    unix,       \* cfg(unix) of the build
    phase,      \* "building" | "formatted" | "panicked"
    out,        \* the text of the last format!("{:?}", report)
    n,          \* number of aggregation calls made so far
    last,       \* the last aggregation call made: its name and its argument
    fmtenv,     \* what the last format read: panicking and the verbosities
    draft,      \* the section a builder chain is constructing
    evals,      \* number of times a skip_if predicate has been evaluated
    hw,         \* a header-gated writer over a sink
    hist,       \* the chunks written to hw, scope by scope
    boot        \* the one-time initialisation: its cell, threads and effects

vars ==
    <<res, calls, captures, unix, phase, out, n, last, fmtenv, draft, evals, hw,
      hist, boot>>

----------------------------------------------------------------------------
(* Bounds of the exploration *)

\* aggregation calls per behaviour of Spec
MaxCalls == 4
\* section calls per behaviour of SpecSection
MaxSectionCalls == 2
\* context_from calls per behaviour of SpecCtx
MaxCtxCalls == 2

----------------------------------------------------------------------------
(* Text helpers *)

NL == "\n"
SP == " "

\* position of the first occurrence of token t in text s, 0 when absent
PosOf(t, s) ==
    IF \E i \in 1..Len(s) : s[i] = t
    THEN CHOOSE i \in 1..Len(s) : s[i] = t /\ \A j \in 1..(i - 1) : s[j] # t
    ELSE 0

\* number of occurrences of token t in text s
Count(t, s) == Cardinality({i \in 1..Len(s) : s[i] = t})

RECURSIVE SplitLines(_)
\* str::split('\n'): the lines of s, always at least one
SplitLines(s) ==
    IF \A i \in 1..Len(s) : s[i] # NL
    THEN <<s>>
    ELSE LET k == PosOf(NL, s)
         IN <<SubSeq(s, 1, k - 1)>> \o SplitLines(SubSeq(s, k + 1, Len(s)))

\* char::is_whitespace: the characters with the Unicode property
\* White_Space; those a token cannot spell are named by their code point
White_Space ==
    {"\t", NL, "U+000B", "\f", "\r", SP, "U+0085", "U+00A0", "U+1680",
     "U+2000", "U+2001", "U+2002", "U+2003", "U+2004", "U+2005", "U+2006",
     "U+2007", "U+2008", "U+2009", "U+200A", "U+2028", "U+2029", "U+202F",
     "U+205F", "U+3000"}

\* str::trim: s without the whitespace at its start and at its end
trim(s) ==
    LET keep == {i \in DOMAIN s : s[i] \notin White_Space}
    IN IF keep = {} THEN <<>>
       ELSE SubSeq(s, CHOOSE i \in keep : \A j \in keep : i <= j,
                      CHOOSE i \in keep : \A j \in keep : j <= i)

\* s without the whitespace at its end only
TrimEnd(s) ==
    LET keep == {i \in DOMAIN s : s[i] \notin White_Space}
    IN IF keep = {} THEN <<>>
       ELSE SubSeq(s, 1, CHOOSE i \in keep : \A j \in keep : j <= i)

RECURSIVE ToDecNat(_)
ToDecNat(k) ==
    LET d == <<"0", "1", "2", "3", "4", "5", "6", "7", "8", "9">>[(k % 10) + 1]
    IN IF k < 10 THEN <<d>> ELSE ToDecNat(k \div 10) \o <<d>>

\* Display for i32: decimal digits, "-" first when negative
ToDec(k) == IF k < 0 THEN <<"-">> \o ToDecNat(0 - k) ELSE ToDecNat(k)

----------------------------------------------------------------------------
(* Writers: values implementing fmt::Write.  A writer is a record; the     *)
(* bottom of every stack of adapters is a sink.  A failed write is sticky  *)
(* in the sink (err), which models `?`: every caller returns at once, so   *)
(* nothing is written and no adapter state changes after the failure.      *)

NoCap == 0 - 1

\* a text sink holding what was written; cap = NoCap is a String
Sink(cap) == [type |-> "sink", out |-> <<>>, cap |-> cap, err |-> FALSE]

RECURSIVE Failed(_)
Failed(w) == IF w.type = "sink" THEN w.err ELSE Failed(w.inner)

RECURSIVE Written(_)
Written(w) == IF w.type = "sink" THEN w.out ELSE Written(w.inner)

Sink_write_str(w, s) ==
    IF w.err THEN w
    ELSE IF w.cap # NoCap /\ Len(w.out) + Len(s) > w.cap
         THEN [w EXCEPT !.err = TRUE]
         ELSE [w EXCEPT !.out = @ \o s]

WriterExt_header(inner, header) ==
    [type |-> "hw", inner |-> inner, header |-> header, started |-> FALSE]

\* a variant that leaves the latch as it is
ready_keeps_latch(w) == w

\* HeaderWriter::ready
ready(w) == [w EXCEPT !.started = FALSE]

in_progress(w) == [w EXCEPT !.started = TRUE]

\* indenter::indented(f).with_format(Format::Uniform { indentation })
indented(inner, indentation) ==
    [type |-> "ind", inner |-> inner, indentation |-> indentation,
     needs_indent |-> TRUE]

RECURSIVE write_str(_, _)
RECURSIVE Indented_lines(_, _, _)

\* a variant that never latches: the header goes out before every chunk
ReadyHeaderWriter_write_str_unlatched(w, s) ==
    LET w1 == IF s # <<>>
              THEN [w EXCEPT !.inner = write_str(w.inner, w.header)]
              ELSE w
    IN IF Failed(w1) THEN w1 ELSE [w1 EXCEPT !.inner = write_str(w1.inner, s)]

\* a variant that writes the header before the first chunk, empty or not
ReadyHeaderWriter_write_str_any_chunk(w, s) ==
    LET w1 == IF ~w.started
              THEN LET i1 == write_str(w.inner, w.header)
                   IN IF Failed(i1)
                      THEN [w EXCEPT !.inner = i1]
                      ELSE [w EXCEPT !.inner = i1, !.started = TRUE]
              ELSE w
    IN IF Failed(w1) THEN w1 ELSE [w1 EXCEPT !.inner = write_str(w1.inner, s)]

\* a variant that latches before the header is written
ReadyHeaderWriter_write_str_latch_first(w, s) ==
    LET w1 == IF ~w.started /\ s # <<>>
              THEN [w EXCEPT !.inner = write_str(w.inner, w.header),
                             !.started = TRUE]
              ELSE w
    IN IF Failed(w1) THEN w1 ELSE [w1 EXCEPT !.inner = write_str(w1.inner, s)]

\* ReadyHeaderWriter::write_str over the HeaderWriter w
ReadyHeaderWriter_write_str(w, s) ==
    LET w1 == IF ~w.started /\ s # <<>>
              THEN LET i1 == write_str(w.inner, w.header)
                   IN IF Failed(i1)
                      THEN [w EXCEPT !.inner = i1]
                      ELSE [w EXCEPT !.inner = i1, !.started = TRUE]
              ELSE w
    IN IF Failed(w1) THEN w1 ELSE [w1 EXCEPT !.inner = write_str(w1.inner, s)]

\* the loop of indenter's Indented::write_str over the lines of the chunk
Indented_lines(w, lines, ind) ==
    IF lines = <<>> \/ Failed(w) THEN w
    ELSE LET line == Head(lines)
             w1 == IF ind > 0
                   THEN [w EXCEPT !.inner = write_str(w.inner, <<NL>>),
                                  !.needs_indent = TRUE]
                   ELSE w
         IN IF Failed(w1) THEN w1
            ELSE IF w1.needs_indent /\ line = <<>>
            THEN Indented_lines(w1, Tail(lines), ind + 1)
            ELSE LET w2 == IF w1.needs_indent
                           THEN [w1 EXCEPT
                                   !.inner = write_str(w1.inner, w1.indentation),
                                   !.needs_indent = FALSE]
                           ELSE w1
                     w3 == IF Failed(w2) THEN w2
                           ELSE [w2 EXCEPT !.inner = write_str(w2.inner, line)]
                 IN Indented_lines(w3, Tail(lines), ind + 1)

Indented_write_str(w, s) == Indented_lines(w, SplitLines(s), 0)

\* fmt::Write::write_str, dispatched on the writer
write_str(w, s) ==
    IF Failed(w) THEN w
    ELSE IF w.type = "sink" THEN Sink_write_str(w, s)
    ELSE IF w.type = "hw" THEN ReadyHeaderWriter_write_str(w, s)
    ELSE Indented_write_str(w, s)

----------------------------------------------------------------------------
(* Displayable values: what a Box<dyn Display> of the report can hold *)

None == [t |-> "none"]

\* a string
Str(s) == [t |-> "str", s |-> s]

\* HelpInfo::Note / Warning / Suggestion wrapping a displayable payload
HelpInfo(kind, context) == [t |-> "help", kind |-> kind, c |-> context]

\* body.header(h): the header-gated, indented section value
IndentedSection(header, body) == [t |-> "isec", header |-> header, body |-> body]

\* ansi_term: the escape sequences a colour paints with
Prefix(colour) == IF colour = "Cyan" THEN "ESC[36m" ELSE "ESC[33m"
Suffix == "ESC[0m"

\* Colour::paint(label) displayed: prefix, the string, suffix
Paint(colour, label, w) ==
    write_str(write_str(write_str(w, <<Prefix(colour)>>), <<label>>), <<Suffix>>)

HelpColour(kind) == IF kind = "Warning" THEN "Yellow" ELSE "Cyan"

\* impl Display for HelpInfo: write!(f, "{}: {}", colour.paint(kind), context)
HelpInfo_fmt(d, w) ==
    write_str(write_str(Paint(HelpColour(d.kind), d.kind, w), <<":", SP>>), d.c)

\* impl Display for IndentedSection: the header is written once, before the
\* first non-empty chunk of the body; a newline separates it from the body;
\* the body is indented by three spaces
IndentedSection_fmt(d, w) ==
    LET headered == ready(WriterExt_header(w, d.header))
        separated == ready(WriterExt_header(headered, <<NL>>))
        ind == indented(separated, <<SP, SP, SP>>)
    IN write_str(ind, d.body).inner.inner.inner

\* the display of an auxiliary failure: "Error:" and, on the next line, the
\* numbered message of the failure
ErrorInfo_fmt(d, w) ==
    write_str(write_str(w, <<"Error:", NL, SP, SP, SP, "0", ":", SP>>), d.c)

\* Display::fmt of a displayable value into the writer w
Display_fmt(d, w) ==
    IF Failed(w) THEN w
    ELSE IF d.t = "str" THEN write_str(w, d.s)
    ELSE IF d.t = "help" THEN HelpInfo_fmt(d, w)
    ELSE IF d.t = "error" THEN ErrorInfo_fmt(d, w)
    ELSE IndentedSection_fmt(d, w)

----------------------------------------------------------------------------
(* Section and its builders *)

\* impl From<T: Display> for Section
Section_from(header) ==
    [header |-> header, body |-> None, order |-> "AfterErrMsgs"]

\* Section::order
Section_order(section, order) == [section EXCEPT !.order = order]

\* the entry an auxiliary failure is kept as: apart from the custom sections
\* and the help entries, displayed as "Error:" over its numbered message
ErrorSection(context) ==
    [header |-> [t |-> "error", c |-> context], body |-> None, order |-> "Error"]

\* a variant that rebuilds the section from its header
body_from_header(section, b) == [Section_from(section.header) EXCEPT !.body = b]

\* SectionExt::body
body(section, b) == [section EXCEPT !.body = b]

\* a variant in which the last predicate decides
skip_if_last_wins(section, condition) ==
    [section EXCEPT !.order = IF condition THEN "SkipEntirely" ELSE "AfterErrMsgs"]

\* a variant that never looks at the predicate
skip_if_ignored(section, condition) == section

\* a variant with the test inverted
skip_if_inverted(section, condition) ==
    [section EXCEPT !.order = IF condition THEN section.order ELSE "SkipEntirely"]

\* a variant that rebuilds the section from its header
skip_if_from_header(section, condition) ==
    [Section_from(section.header) EXCEPT
        !.order = IF condition THEN "SkipEntirely" ELSE section.order]

\* SectionExt::skip_if; condition is the value the predicate returns
skip_if(section, condition) ==
    [section EXCEPT !.order = IF condition THEN "SkipEntirely" ELSE section.order]

\* a variant that trims the end of a string body before writing it
Section_fmt_trimmed(section, w) ==
    LET w1 == Display_fmt(section.header, w)
    IN IF section.body = None \/ Failed(w1) THEN w1
       ELSE LET w2 == write_str(w1, <<NL>>)
                b == IF section.body.t = "str" THEN Str(TrimEnd(section.body.s))
                     ELSE section.body
            IN IF Failed(w2) THEN w2
               ELSE Display_fmt(b, indented(w2, <<SP, SP, SP>>)).inner

\* a variant that indents the body by two spaces
Section_fmt_two_spaces(section, w) ==
    LET w1 == Display_fmt(section.header, w)
    IN IF section.body = None \/ Failed(w1) THEN w1
       ELSE LET w2 == write_str(w1, <<NL>>)
            IN IF Failed(w2) THEN w2
               ELSE Display_fmt(section.body, indented(w2, <<SP, SP>>)).inner

\* impl fmt::Debug for Section
Section_fmt(section, w) ==
    LET w1 == Display_fmt(section.header, w)
    IN IF section.body = None \/ Failed(w1) THEN w1
       ELSE LET w2 == write_str(w1, <<NL>>)
            IN IF Failed(w2) THEN w2
               ELSE Display_fmt(section.body, indented(w2, <<SP, SP, SP>>)).inner

\* format!("{:?}", section)
SectionText(section) == Written(Section_fmt(section, Sink(NoCap)))

----------------------------------------------------------------------------
(* The environment block and the diagnostics writers of writers.rs *)

RECURSIVE Words(_)
\* the words of a sentence, one space between two words
Words(ws) ==
    IF Len(ws) <= 1 THEN ws ELSE <<Head(ws), SP>> \o Words(Tail(ws))

\* the derived order of enum Verbosity
VerbosityRank(v) == CASE v = "Minimal" -> 0 [] v = "Medium" -> 1 [] OTHER -> 2

\* a variant with the two branches exchanged
BacktraceOmited_fmt_exchanged(omited, w) ==
    IF omited
    THEN write_str(w,
            Words(<<"Run", "with", "COLORBT_SHOW_HIDDEN=1", "environment",
                    "variable", "to", "disable", "frame", "filtering.">>))
    ELSE write_str(
            write_str(w, Words(<<"Backtrace", "omitted.">>) \o <<NL>>),
            Words(<<"Run", "with", "RUST_BACKTRACE=1", "environment", "variable",
                    "to", "display", "it.">>))

\* impl Display for BacktraceOmited
BacktraceOmited_fmt(omited, w) ==
    IF omited
    THEN write_str(
            write_str(w, Words(<<"Backtrace", "omitted.">>) \o <<NL>>),
            Words(<<"Run", "with", "RUST_BACKTRACE=1", "environment", "variable",
                    "to", "display", "it.">>))
    ELSE write_str(w,
            Words(<<"Run", "with", "COLORBT_SHOW_HIDDEN=1", "environment",
                    "variable", "to", "disable", "frame", "filtering.">>))

\* a variant that compares with < in place of <=
SourceSnippets_fmt_strict(v, w) ==
    IF VerbosityRank(v) < VerbosityRank("Medium")
    THEN write_str(w,
            Words(<<"Run", "with", "RUST_BACKTRACE=full", "to", "include",
                    "source", "snippets.">>))
    ELSE w

\* impl Display for SourceSnippets
SourceSnippets_fmt(v, w) ==
    IF VerbosityRank(v) <= VerbosityRank("Medium")
    THEN write_str(w,
            Words(<<"Run", "with", "RUST_BACKTRACE=full", "to", "include",
                    "source", "snippets.">>))
    ELSE w

\* a variant that warns for every span trace that is not captured
SpanTraceOmited_fmt_not_captured(span_trace, w) ==
    IF span_trace \notin {"none", "CAPTURED"}
    THEN write_str(
            write_str(w, Words(<<"Warning:", "SpanTrace", "capture", "is",
                                 "Unsupported.">>) \o <<NL>>),
            Words(<<"Ensure", "that", "you've", "setup", "an", "error", "layer",
                    "and", "the", "versions", "match">>))
    ELSE w

\* impl Display for SpanTraceOmited; span_trace = "none" is Option::None
SpanTraceOmited_fmt(span_trace, w) ==
    IF span_trace = "UNSUPPORTED"
    THEN write_str(
            write_str(w, Words(<<"Warning:", "SpanTrace", "capture", "is",
                                 "Unsupported.">>) \o <<NL>>),
            Words(<<"Ensure", "that", "you've", "setup", "an", "error", "layer",
                    "and", "the", "versions", "match">>))
    ELSE w

\* impl Display for FormattedSpanTrace; the colorized trace is opaque text
FormattedSpanTrace_fmt(span_trace, w) ==
    IF span_trace = "CAPTURED"
    THEN write_str(indented(w, <<SP, SP>>), <<"<spantrace>">>).inner
    ELSE w

\* a variant that writes the separator before each part, empty or not
EnvSection_fmt_always_separated(bt_captured, span_trace, panicking, panic_v, lib_v, w) ==
    LET v == IF panicking THEN panic_v ELSE lib_v
        w1 == BacktraceOmited_fmt(~bt_captured, w)
        s1 == SourceSnippets_fmt(v, write_str(w1, <<NL>>))
        s2 == SpanTraceOmited_fmt(span_trace, write_str(s1, <<NL>>))
    IN s2

\* impl Display for EnvSection
EnvSection_fmt(bt_captured, span_trace, panicking, panic_v, lib_v, w) ==
    LET v == IF panicking THEN panic_v ELSE lib_v
        w1 == BacktraceOmited_fmt(~bt_captured, w)
        separated == [type |-> "hw", inner |-> w1, header |-> <<NL>>,
                      started |-> FALSE]
        s1 == SourceSnippets_fmt(v, ready(separated))
        s2 == SpanTraceOmited_fmt(span_trace, ready(s1))
    IN s2.inner

----------------------------------------------------------------------------
(* The report: a failure with its context store (Handler) *)

NoHandler == [backtrace |-> FALSE, span_trace |-> "none", sections |-> <<>>]

\* a failure that is not a report yet
PlainError(msg) == [msg |-> msg, isReport |-> FALSE, handler |-> NoHandler]

\* the handler built when a failure becomes a report; capture is what the
\* stack and span capture returned
NewHandler(capture) ==
    [backtrace |-> capture.bt, span_trace |-> capture.span, sections |-> <<>>]

\* a variant that captures again on every conversion
into_recapture(e, capture) ==
    IF e.isReport
    THEN [e EXCEPT !.handler.backtrace = capture.bt,
                   !.handler.span_trace = capture.span]
    ELSE [msg |-> e.msg, isReport |-> TRUE, handler |-> NewHandler(capture)]

\* a variant that builds a new handler on every conversion
into_fresh(e, capture) ==
    [msg |-> e.msg, isReport |-> TRUE, handler |-> NewHandler(capture)]

\* E: Into<Report>: the identity on a report, else the first conversion
into(e, capture) ==
    IF e.isReport THEN e
    ELSE [msg |-> e.msg, isReport |-> TRUE, handler |-> NewHandler(capture)]

\* a variant that stores the newest section first
push_front(e, section) == [e EXCEPT !.handler.sections = <<section>> \o @]

\* e.context_mut().sections.push(section)
push(e, section) == [e EXCEPT !.handler.sections = Append(@, section)]

\* the class the renderer puts a stored entry in: a help entry is an entry
\* headed by a HelpInfo that the aggregation call placed AfterBackTrace; any
\* other entry is of the class its placement names
Section_class(section) ==
    IF section.header.t = "help" /\ section.order = "AfterBackTrace"
    THEN "Help" ELSE section.order

RECURSIVE FmtSections(_, _, _)
\* each section of the given class, in store order, through the separator
FmtSections(sections, class, separated) ==
    IF sections = <<>> \/ Failed(separated) THEN separated
    ELSE IF Section_class(Head(sections)) = class
         THEN FmtSections(Tail(sections), class,
                          Section_fmt(Head(sections), ready(separated)))
         ELSE FmtSections(Tail(sections), class, separated)

RECURSIVE FmtHelpEntries(_, _, _)
\* the help entries in store order, one per line with no blank line
\* between them: the first opens the block, each later one starts a new
\* line
FmtHelpEntries(sections, first, h) ==
    IF sections = <<>> \/ Failed(h) THEN h
    ELSE IF Section_class(Head(sections)) = "Help"
         THEN FmtHelpEntries(Tail(sections), FALSE,
                  Section_fmt(Head(sections),
                              IF first THEN in_progress(h) ELSE ready(h)))
         ELSE FmtHelpEntries(Tail(sections), first, h)

\* the backtrace printer's output is opaque text
Backtrace_fmt(captured, w) ==
    IF captured THEN write_str(w, <<"<backtrace>">>) ELSE w

\* the report's Debug: message, error sections, AfterErrMsgs sections, help
\* entries, diagnostics block, AfterBackTrace sections
Handler_debug(e, panicking, panic_v, lib_v, w) ==
    LET h == e.handler
        w0 == write_str(w, e.msg)
        sep0 == [type |-> "hw", inner |-> w0, header |-> <<NL, NL>>,
                 started |-> FALSE]
        sepE == FmtSections(h.sections, "Error", sep0)
        sep1 == FmtSections(h.sections, "AfterErrMsgs", sepE)
        help == FmtHelpEntries(h.sections, TRUE,
                               WriterExt_header(ready(sep1), <<NL>>))
        sep2 == FormattedSpanTrace_fmt(h.span_trace, ready(help.inner))
        sep3 == Backtrace_fmt(h.backtrace, ready(sep2))
        sep4 == EnvSection_fmt(h.backtrace, h.span_trace, panicking, panic_v,
                               lib_v, ready(sep3))
        sep5 == FmtSections(h.sections, "AfterBackTrace", sep4)
    IN sep5.inner

\* format!("{:?}", report)
ReportText(e, panicking, panic_v, lib_v) ==
    Written(Handler_debug(e, panicking, panic_v, lib_v, Sink(NoCap)))

----------------------------------------------------------------------------
(* The aggregation API: impl Help<T> for Result<T, E>.  Every operation    *)
(* returns the new Result and the number of times it invoked its closure.  *)

NoError == PlainError(<<>>)

Ok(v) == [kind |-> "Ok", v |-> v, e |-> NoError]

Err(e) == [kind |-> "Err", v |-> "-", e |-> e]

\* Result::map_err; mapped is op(e), the closure applied to the error of
\* self, which only an Err uses
map_err(self, mapped) ==
    IF self.kind = "Ok" THEN self ELSE [self EXCEPT !.e = mapped]

\* the Section a help entry is stored as
HelpSection(kind, context) ==
    Section_order(Section_from(HelpInfo(kind, context)), "AfterBackTrace")

\* C: Into<Section>: a Section is itself, a displayable goes through From
Section_into(c) == IF "t" \in DOMAIN c THEN Section_from(c) ELSE c

\* a variant that leaves the entry in the default placement
note_default_order(self, context, capture) ==
    [res |-> map_err(self,
                push(into(self.e, capture), Section_from(HelpInfo("Note", context)))),
     invoked |-> 0]

note(self, context, capture) ==
    [res |-> map_err(self,
                push(into(self.e, capture), HelpSection("Note", context))),
     invoked |-> 0]

\* a variant that calls the closure before looking at self
with_note_eager(self, context, capture) ==
    [res |-> map_err(self,
                push(into(self.e, capture), HelpSection("Note", context))),
     invoked |-> 1]

with_note(self, context, capture) ==
    [res |-> map_err(self,
                push(into(self.e, capture), HelpSection("Note", context))),
     invoked |-> IF self.kind = "Err" THEN 1 ELSE 0]

\* a variant that places the entry with the custom sections
warning_after_err_msgs(self, context, capture) ==
    [res |-> map_err(self,
                push(into(self.e, capture),
                     Section_order(Section_from(HelpInfo("Warning", context)),
                                   "AfterErrMsgs"))),
     invoked |-> 0]

warning(self, context, capture) ==
    [res |-> map_err(self,
                push(into(self.e, capture), HelpSection("Warning", context))),
     invoked |-> 0]

with_warning(self, context, capture) ==
    [res |-> map_err(self,
                push(into(self.e, capture), HelpSection("Warning", context))),
     invoked |-> IF self.kind = "Err" THEN 1 ELSE 0]

suggestion(self, context, capture) ==
    [res |-> map_err(self,
                push(into(self.e, capture), HelpSection("Suggestion", context))),
     invoked |-> 0]

\* a variant that returns the suggestion as the failure
with_suggestion_as_error(self, context, capture) ==
    [res |-> map_err(self, into(PlainError(context), capture)),
     invoked |-> IF self.kind = "Err" THEN 1 ELSE 0]

with_suggestion(self, context, capture) ==
    [res |-> map_err(self,
                push(into(self.e, capture), HelpSection("Suggestion", context))),
     invoked |-> IF self.kind = "Err" THEN 1 ELSE 0]

\* Help::error: the failure becomes a report and keeps the auxiliary
\* failure as an error section
error(self, context, capture) ==
    [res |-> map_err(self, push(into(self.e, capture), ErrorSection(context))),
     invoked |-> 0]

\* Help::with_error: as error, the closure called on Err only
with_error(self, context, capture) ==
    [res |-> map_err(self, push(into(self.e, capture), ErrorSection(context))),
     invoked |-> IF self.kind = "Err" THEN 1 ELSE 0]

\* a variant that calls the closure once for the test and once more for
\* the push
with_section_twice(self, c, capture) ==
    [res |-> map_err(self,
                LET e1 == into(self.e, capture)
                IN IF Section_into(c).order # "SkipEntirely"
                   THEN push(e1, Section_into(c)) ELSE e1),
     invoked |-> IF self.kind # "Err" THEN 0
                 ELSE IF Section_into(c).order # "SkipEntirely" THEN 2 ELSE 1]

with_section(self, c, capture) ==
    [res |-> map_err(self,
                LET e1 == into(self.e, capture)
                    sec == Section_into(c)
                IN IF sec.order # "SkipEntirely" THEN push(e1, sec) ELSE e1),
     invoked |-> IF self.kind = "Err" THEN 1 ELSE 0]

\* a variant that stores the section whatever its placement
section_unfiltered(self, c, capture) ==
    [res |-> map_err(self, push(into(self.e, capture), Section_into(c))),
     invoked |-> 0]

section(self, c, capture) ==
    [res |-> map_err(self,
                LET e1 == into(self.e, capture)
                    sec == Section_into(c)
                IN IF sec.order # "SkipEntirely" THEN push(e1, sec) ELSE e1),
     invoked |-> 0]

\* section called on a report itself, as context_from does
Report_section(report, c) ==
    LET sec == Section_into(c)
    IN IF sec.order # "SkipEntirely" THEN push(report, sec) ELSE report

----------------------------------------------------------------------------
(* context_from: structured extraction from a process exit status *)

Some(x) == [some |-> TRUE, v |-> x]
Absent == [some |-> FALSE, v |-> 0]

\* std::process::ExitStatus as the code reads it: success(), code(), signal()
Exited(code) == [success |-> code = 0, code |-> Some(code), signal |-> Absent]
Signaled(sig) == [success |-> FALSE, code |-> Absent, signal |-> Some(sig)]
Stopped == [success |-> FALSE, code |-> Absent, signal |-> Absent]
Codeless(success) == [success |-> success, code |-> Absent, signal |-> Absent]

ExitCodes == {0, 2, 101}

\* the statuses a build can meet: on unix a wait status is an exit, a
\* termination by signal, or a stop; elsewhere there is no signal
Statuses(isUnix) ==
    IF isUnix
    THEN {Exited(c) : c \in ExitCodes} \cup {Signaled(9), Stopped}
    ELSE {Exited(c) : c \in ExitCodes \cup {0 - 1}}
            \cup {Codeless(b) : b \in BOOLEAN}

ExitStatusHeader == <<"Exit", SP, "Status:">>

\* a variant with the two adverbs exchanged
ExitStatus_context_from_swapped(self, source, isUnix) ==
    LET how == IF source.success THEN "unsuccessfully" ELSE "successfully"
    IN IF source.code.some
       THEN [e |-> Report_section(self, IndentedSection(ExitStatusHeader,
                      Words(<<"command", "exited", how, "with", "status", "code">>)
                      \o <<SP>> \o ToDec(source.code.v))),
             panicked |-> FALSE]
       ELSE IF isUnix
       THEN IF source.signal.some
            THEN [e |-> Report_section(self, IndentedSection(ExitStatusHeader,
                           Words(<<"command", "terminated", how, "by", "signal">>)
                           \o <<SP>> \o ToDec(source.signal.v))),
                  panicked |-> FALSE]
            ELSE [e |-> self, panicked |-> TRUE]
       ELSE [e |-> Report_section(self, IndentedSection(ExitStatusHeader,
                      Words(<<"command", "exited", how, "without", "a", "status",
                              "code", "or", "signal">>))),
             panicked |-> FALSE]

\* impl ContextFrom<&ExitStatus> for Report; panicked is unreachable!()
ExitStatus_context_from(self, source, isUnix) ==
    LET how == IF source.success THEN "successfully" ELSE "unsuccessfully"
    IN IF source.code.some
       THEN [e |-> Report_section(self, IndentedSection(ExitStatusHeader,
                      Words(<<"command", "exited", how, "with", "status", "code">>)
                      \o <<SP>> \o ToDec(source.code.v))),
             panicked |-> FALSE]
       ELSE IF isUnix
       THEN IF source.signal.some
            THEN [e |-> Report_section(self, IndentedSection(ExitStatusHeader,
                           Words(<<"command", "terminated", how, "by", "signal">>)
                           \o <<SP>> \o ToDec(source.signal.v))),
                  panicked |-> FALSE]
            ELSE [e |-> self, panicked |-> TRUE]
       ELSE [e |-> Report_section(self, IndentedSection(ExitStatusHeader,
                      Words(<<"command", "exited", how, "without", "a", "status",
                              "code", "or", "signal">>))),
             panicked |-> FALSE]

\* the byte that is no valid UTF-8, and the character that replaces it
BadByte == "xFF"
Replacement == "U+FFFD"

\* String::from_utf8_lossy(bytes).into_owned(): every invalid byte becomes
\* U+FFFD, the rest is kept
from_utf8_lossy(bytes) ==
    [i \in DOMAIN bytes |-> IF bytes[i] = BadByte THEN Replacement ELSE bytes[i]]

\* std::process::Output and std::process::Command as the code reads them
Output(status, stdout, stderr) ==
    [status |-> status, stdout |-> stdout, stderr |-> stderr]

Command(debug) == [debug |-> debug]

\* impl ContextFrom<&Output> for Report
Output_context_from(self, source, isUnix) ==
    LET stdout == from_utf8_lossy(source.stdout)
        stderr == from_utf8_lossy(source.stderr)
        s0 == ExitStatus_context_from(self, source.status, isUnix)
    IN IF s0.panicked THEN s0
       ELSE [e |-> Report_section(
                      Report_section(s0.e, IndentedSection(<<"Stdout:">>, stdout)),
                      IndentedSection(<<"Stderr:">>, stderr)),
             panicked |-> FALSE]

\* impl ContextFrom<&Command> for Report; the Debug text of a command is
\* opaque text
Command_context_from(self, source) ==
    [e |-> Report_section(self, IndentedSection(<<"Command:">>, source.debug)),
     panicked |-> FALSE]

\* Report: ContextFrom<C>, resolved on the type of the source
Report_context_from(self, source, isUnix) ==
    IF "stdout" \in DOMAIN source THEN Output_context_from(self, source, isUnix)
    ELSE IF "debug" \in DOMAIN source THEN Command_context_from(self, source)
    ELSE ExitStatus_context_from(self, source, isUnix)

\* impl ContextFrom<C> for Result<T, E>:
\* self.map_err(|e| e.into()).map_err(|report| report.context_from(source))
Result_context_from(self, source, capture, isUnix) ==
    LET r1 == map_err(self, into(self.e, capture))
        c == Report_context_from(r1.e, source, isUnix)
    IN IF r1.kind = "Ok"
       THEN [res |-> r1, panicked |-> FALSE]
       ELSE [res |-> [r1 EXCEPT !.e = c.e], panicked |-> c.panicked]

----------------------------------------------------------------------------
(* Inputs *)

\* the text the k-th aggregation call of a behaviour brings: its own token
Tag(k) == <<"t1", "t2", "t3", "t4", "t5", "t6", "t7", "t8", "t9">>[k]

Msg == <<"boom">>

Vals == {"v1", "v2"}

NoCapture == [bt |-> FALSE, span |-> "none"]

\* a failure that is a report from the start was built with this capture
FirstCapture == [bt |-> FALSE, span |-> "CAPTURED"]

\* the capture a conversion made by an aggregation call meets
LaterCapture == [bt |-> TRUE, span |-> "UNSUPPORTED"]

\* what capture returns during a call on r: it runs only when r is an Err
\* that is not a report yet
CapturesFor(r) ==
    IF r.kind = "Err" /\ ~r.e.isReport THEN {LaterCapture} ELSE {NoCapture}

\* the verbosity settings a report is formatted under
FormatEnvs ==
    {[panicking |-> FALSE, panic_v |-> "Full", lib_v |-> "Minimal"],
     [panicking |-> TRUE, panic_v |-> "Full", lib_v |-> "Minimal"],
     [panicking |-> FALSE, panic_v |-> "Minimal", lib_v |-> "Medium"]}

\* a builder step applied to a section: .body(b) or .skip_if(|| c)
BodyStep(b) == [op |-> "body", b |-> b, c |-> FALSE]
SkipStep(c) == [op |-> "skip_if", b |-> <<>>, c |-> c]

\* an argument of section / with_section: header.step1.step2... or
\* body.header(header)
Built(h, steps) == [form |-> "built", h |-> h, steps |-> steps, b |-> <<>>]
Headed(h, b) == [form |-> "headed", h |-> h, steps |-> <<>>, b |-> b]
NoArg == [form |-> "none", h |-> <<>>, steps |-> <<>>, b |-> <<>>]

RECURSIVE ApplySteps(_, _)
ApplySteps(sec, steps) ==
    IF steps = <<>> THEN sec
    ELSE ApplySteps(IF Head(steps).op = "body"
                    THEN body(sec, Str(Head(steps).b))
                    ELSE skip_if(sec, Head(steps).c),
                    Tail(steps))

\* the value the caller passes for an argument
ArgValue(a) ==
    IF a.form = "headed" THEN IndentedSection(a.h, a.b)
    ELSE IF a.steps = <<>> THEN Str(a.h)
    ELSE ApplySteps(Section_from(Str(a.h)), a.steps)

\* the section arguments the chains of Spec use
MainSteps == {<<BodyStep(<<"d">>)>>}

MainArgs(k) == {Built(<<Tag(k)>>, st) : st \in MainSteps}

NoStatus == Codeless(FALSE)

NoCall == [op |-> "none", arg |-> NoArg, st |-> NoStatus]

\* the values of fmtenv, draft, evals, hw and hist while nothing uses them
NoEnv == [panicking |-> FALSE, panic_v |-> "Full", lib_v |-> "Full"]

NoSection == Section_from(None)

NoWriter == WriterExt_header(Sink(NoCap), <<>>)

NoHist == <<>>

\* threads that call init_color_eyre concurrently
NumThreads == 3

Threads == 1..NumThreads

EnvVars == {"RUST_SPANTRACE", "RUST_BACKTRACE", "COLOR_EYRE"}

\* the state of the process before any thread has called init_color_eyre,
\* with environment env: an empty cell, no hooks installed
Boot(env) ==
    [cell |-> "INCOMPLETE", value |-> 0, hooks |-> 0, runs |-> 0, installs |-> 0,
     env |-> env,
     pc |-> [t \in Threads |-> "start"],
     seen |-> [t \in Threads |-> 0]]

NoBoot == Boot([v \in EnvVars |-> "unset"])

\* std::env::var(v).is_err(): the variable is absent, or it holds a value
\* that is not Unicode ("xFF" stands for such a value)
var_is_err(value) == value \in {"unset", "xFF"}

\* a variant in which every thread that finds the cell unfinished wins
OnceCell_initialize_unguarded(state) ==
    IF state # "COMPLETE"
    THEN [state |-> "RUNNING", won |-> TRUE]
    ELSE [state |-> state, won |-> FALSE]

\* OnceCell::get_or_init, the slow path: the compare-and-swap that lets
\* one thread run the closure
OnceCell_initialize(state) ==
    IF state = "INCOMPLETE"
    THEN [state |-> "RUNNING", won |-> TRUE]
    ELSE [state |-> state, won |-> FALSE]

\* the thread returns from get_or_init with the value of the cell
Observe(b, t) ==
    [b EXCEPT !.pc[t] = "done", !.seen[t] = b.value]

\* the three variables the closure gives a default, by the position of the
\* closure: the variable, its default, the position of the write and the
\* position after it
Defaults ==
    [spantrace |-> [v |-> "RUST_SPANTRACE", d |-> "0", set |-> "set_spantrace",
                    after |-> "backtrace"],
     backtrace |-> [v |-> "RUST_BACKTRACE", d |-> "0", set |-> "set_backtrace",
                    after |-> "color"],
     color |-> [v |-> "COLOR_EYRE", d |-> "1", set |-> "set_color",
                after |-> "check"]]

----------------------------------------------------------------------------
(* Actions *)

\* the common effect of an aggregation call that returned r
Returned(r, op, arg, st) ==
    /\ res' = r.res
    /\ calls' = calls + r.invoked
    /\ captures' = captures +
          (IF res.kind = "Err" /\ ~res.e.isReport /\ r.res.e.isReport
           THEN 1 ELSE 0)
    /\ n' = n + 1
    /\ last' = [op |-> op, arg |-> arg, st |-> st]
    /\ UNCHANGED <<unix, out, fmtenv, draft, evals, hw, hist, boot>>

Note ==
    /\ phase = "building" /\ n < MaxCalls
    /\ \E cap \in CapturesFor(res) :
          Returned(note(res, <<Tag(n + 1)>>, cap), "note", NoArg, NoStatus)
    /\ UNCHANGED phase

WithNote ==
    /\ phase = "building" /\ n < MaxCalls
    /\ \E cap \in CapturesFor(res) :
          Returned(with_note(res, <<Tag(n + 1)>>, cap), "with_note", NoArg, NoStatus)
    /\ UNCHANGED phase

Warning ==
    /\ phase = "building" /\ n < MaxCalls
    /\ \E cap \in CapturesFor(res) :
          Returned(warning(res, <<Tag(n + 1)>>, cap), "warning", NoArg, NoStatus)
    /\ UNCHANGED phase

WithWarning ==
    /\ phase = "building" /\ n < MaxCalls
    /\ \E cap \in CapturesFor(res) :
          Returned(with_warning(res, <<Tag(n + 1)>>, cap), "with_warning", NoArg,
                   NoStatus)
    /\ UNCHANGED phase

Suggestion ==
    /\ phase = "building" /\ n < MaxCalls
    /\ \E cap \in CapturesFor(res) :
          Returned(suggestion(res, <<Tag(n + 1)>>, cap), "suggestion", NoArg,
                   NoStatus)
    /\ UNCHANGED phase

WithSuggestion ==
    /\ phase = "building" /\ n < MaxCalls
    /\ \E cap \in CapturesFor(res) :
          Returned(with_suggestion(res, <<Tag(n + 1)>>, cap), "with_suggestion",
                   NoArg, NoStatus)
    /\ UNCHANGED phase

Error ==
    /\ phase = "building" /\ n < MaxCalls
    /\ \E cap \in CapturesFor(res) :
          Returned(error(res, <<Tag(n + 1)>>, cap), "error", NoArg, NoStatus)
    /\ UNCHANGED phase

WithError ==
    /\ phase = "building" /\ n < MaxCalls
    /\ \E cap \in CapturesFor(res) :
          Returned(with_error(res, <<Tag(n + 1)>>, cap), "with_error", NoArg,
                   NoStatus)
    /\ UNCHANGED phase

SectionCall(args, max) ==
    /\ phase = "building" /\ n < max
    /\ \E a \in args, cap \in CapturesFor(res) :
          Returned(section(res, ArgValue(a), cap), "section", a, NoStatus)
    /\ UNCHANGED phase

WithSectionCall(args, max) ==
    /\ phase = "building" /\ n < max
    /\ \E a \in args, cap \in CapturesFor(res) :
          Returned(with_section(res, ArgValue(a), cap), "with_section", a, NoStatus)
    /\ UNCHANGED phase

\* format!("{:?}", report) of the failure the chain ended with
Format ==
    /\ phase = "building" /\ res.kind = "Err" /\ res.e.isReport
    /\ fmtenv' \in FormatEnvs
    /\ out' = ReportText(res.e, fmtenv'.panicking, fmtenv'.panic_v, fmtenv'.lib_v)
    /\ phase' = "formatted"
    /\ UNCHANGED <<res, calls, captures, unix, n, last, draft, evals, hw, hist, boot>>

----------------------------------------------------------------------------
(* Spec: chains of Help calls on one Result, then the report is formatted *)

InitResults ==
    {Ok(v) : v \in Vals} \cup {Err(PlainError(Msg))}
        \cup {Err(into(PlainError(Msg), FirstCapture))}

Init ==
    /\ res \in {Ok(v) : v \in Vals} \cup {Err(PlainError(Msg))}
    /\ calls = 0
    /\ captures = 0
    /\ unix = TRUE
    /\ phase = "building"
    /\ out = <<>>
    /\ n = 0
    /\ last = NoCall
    /\ fmtenv = NoEnv
    /\ draft = NoSection
    /\ evals = 0
    /\ hw = NoWriter
    /\ hist = NoHist
    /\ boot = NoBoot

Next ==
    \/ Note
    \/ WithNote
    \/ Warning
    \/ WithWarning
    \/ Suggestion
    \/ WithSuggestion
    \/ Error
    \/ WithError
    \/ SectionCall(MainArgs(n + 1), MaxCalls)
    \/ WithSectionCall(MainArgs(n + 1), MaxCalls)
    \/ Format

Spec == Init /\ [][Next]_vars

----------------------------------------------------------------------------
(* SpecSection: section and with_section over the ways to build a section *)

Bodies == {<<>>, <<"d">>, <<"d", NL, "e">>}

RichSteps ==
    {<<>>}
        \cup {<<BodyStep(b)>> : b \in Bodies}
        \cup {<<SkipStep(c)>> : c \in BOOLEAN}
        \cup {<<SkipStep(c), BodyStep(b)>> : c \in BOOLEAN, b \in Bodies}
        \cup {<<BodyStep(b), SkipStep(c)>> : c \in BOOLEAN, b \in Bodies}

RichArgs(k) ==
    {Built(<<Tag(k)>>, st) : st \in RichSteps}
        \cup {Headed(<<Tag(k)>>, b) : b \in Bodies}

InitSection ==
    /\ res \in {Ok("v1"), Err(PlainError(Msg)), Err(into(PlainError(Msg), FirstCapture))}
    /\ calls = 0
    /\ captures = IF res.kind = "Err" /\ res.e.isReport THEN 1 ELSE 0
    /\ unix = TRUE
    /\ phase = "building"
    /\ out = <<>>
    /\ n = 0
    /\ last = NoCall
    /\ fmtenv = NoEnv
    /\ draft = NoSection
    /\ evals = 0
    /\ hw = NoWriter
    /\ hist = NoHist
    /\ boot = NoBoot

NextSection ==
    \/ SectionCall(RichArgs(n + 1), MaxSectionCalls)
    \/ WithSectionCall(RichArgs(n + 1), MaxSectionCalls)
    \/ Format

SpecSection == InitSection /\ [][NextSection]_vars

----------------------------------------------------------------------------
(* SpecCtx: context_from with an exit status, on either kind of build *)

ContextFromStatus ==
    /\ phase = "building" /\ n < MaxCtxCalls
    /\ \E st \in Statuses(unix), cap \in CapturesFor(res) :
          LET r == Result_context_from(res, st, cap, unix)
          IN /\ res' = IF r.panicked THEN res ELSE r.res
             /\ phase' = IF r.panicked THEN "panicked" ELSE phase
             /\ captures' = captures +
                   (IF res.kind = "Err" /\ ~res.e.isReport THEN 1 ELSE 0)
             /\ last' = [op |-> "context_from", arg |-> NoArg, st |-> st]
    /\ n' = n + 1
    /\ UNCHANGED <<calls, unix, out, fmtenv, draft, evals, hw, hist, boot>>

InitCtx ==
    /\ res \in InitResults
    /\ calls = 0
    /\ captures = IF res.kind = "Err" /\ res.e.isReport THEN 1 ELSE 0
    /\ unix \in BOOLEAN
    /\ phase = "building"
    /\ out = <<>>
    /\ n = 0
    /\ last = NoCall
    /\ fmtenv = NoEnv
    /\ draft = NoSection
    /\ evals = 0
    /\ hw = NoWriter
    /\ hist = NoHist
    /\ boot = NoBoot

NextCtx ==
    \/ ContextFromStatus
    \/ Format

SpecCtx == InitCtx /\ [][NextCtx]_vars

----------------------------------------------------------------------------
(* SpecStore: help entries and sections, some suppressed, added to one
   failure *)

StoreSteps == {<<BodyStep(<<"d">>)>>, <<SkipStep(TRUE)>>}

StoreArgs(k) == {Built(<<Tag(k)>>, st) : st \in StoreSteps}

InitStore == Init /\ res.kind = "Err"

NextStore ==
    \/ Note
    \/ Warning
    \/ WithSuggestion
    \/ Error
    \/ SectionCall(StoreArgs(n + 1), MaxCalls)
    \/ Format

SpecStore == InitStore /\ [][NextStore]_vars

----------------------------------------------------------------------------
(* SpecInit: threads calling init_color_eyre at the same time *)

NotBoot ==
    <<res, calls, captures, unix, phase, out, n, last, fmtenv, draft, evals, hw, hist>>

InitInit ==
    /\ res = Err(PlainError(Msg))
    /\ calls = 0
    /\ captures = 0
    /\ unix = TRUE
    /\ phase = "initialising"
    /\ out = <<>>
    /\ n = 0
    /\ last = NoCall
    /\ fmtenv = NoEnv
    /\ draft = NoSection
    /\ evals = 0
    /\ hw = NoWriter
    /\ hist = NoHist
    /\ boot \in {Boot([v \in EnvVars |-> IF v = "COLOR_EYRE" THEN c
                                          ELSE IF v = "RUST_BACKTRACE" THEN b
                                          ELSE "unset"]) :
                    c \in {"unset", "0", "1", "xFF"}, b \in {"unset", "1", "xFF"}}

\* INIT_COLOR_EYRE.get_or_init(..): the fast path reads the cell
GetOrInit(t) ==
    /\ boot.pc[t] = "start"
    /\ boot' = IF boot.cell = "COMPLETE" THEN Observe(boot, t)
               ELSE [boot EXCEPT !.pc[t] = "initialize"]
    /\ UNCHANGED NotBoot

\* the slow path: win the cell and run the closure, or wait for the winner
Initialize(t) ==
    /\ boot.pc[t] = "initialize"
    /\ LET r == OnceCell_initialize(boot.cell)
       IN boot' = IF r.won
                  THEN [boot EXCEPT !.cell = r.state, !.pc[t] = "spantrace",
                                    !.runs = @ + 1]
                  ELSE IF boot.cell = "COMPLETE" THEN Observe(boot, t)
                  ELSE [boot EXCEPT !.pc[t] = "wait"]
    /\ UNCHANGED NotBoot

\* a waiting thread is woken when the winner has finished or has panicked
Wake(t) ==
    /\ boot.pc[t] = "wait"
    /\ boot.cell # "RUNNING"
    /\ boot' = IF boot.cell = "COMPLETE" THEN Observe(boot, t)
               ELSE [boot EXCEPT !.pc[t] = "initialize"]
    /\ UNCHANGED NotBoot

\* std::env::var(v).is_err(): the closure reads the variable it has come
\* to; found absent or not Unicode, the variable is to be written, else the
\* next one is read
CheckVar(t) ==
    /\ boot.pc[t] \in DOMAIN Defaults
    /\ LET at == Defaults[boot.pc[t]]
       IN boot' = [boot EXCEPT !.pc[t] = IF var_is_err(boot.env[at.v])
                                          THEN at.set ELSE at.after]
    /\ UNCHANGED NotBoot

\* std::env::set_var(v, d): the write that follows a read that found the
\* variable absent or not Unicode, whatever the variable holds by now
SetVar(t) ==
    /\ \E k \in DOMAIN Defaults :
          /\ boot.pc[t] = Defaults[k].set
          /\ boot' = [boot EXCEPT !.env[Defaults[k].v] = Defaults[k].d,
                                   !.pc[t] = Defaults[k].after]
    /\ UNCHANGED NotBoot

\* if std::env::var("COLOR_EYRE").unwrap() == "1" { color_eyre::install().expect(..) }
\* the variable is read in one step, where unwrap panics on a variable
\* that is absent or not Unicode, and install() is called in the next;
\* install() puts the hooks in place unless hooks are in place already,
\* and then returns an error, on which expect panics and the cell is
\* left empty
Install(t) ==
    /\ boot.pc[t] \in {"check", "install"}
    /\ boot' =
          IF boot.pc[t] = "check"
          THEN IF var_is_err(boot.env["COLOR_EYRE"])
               THEN [boot EXCEPT !.pc[t] = "panicked", !.cell = "INCOMPLETE"]
               ELSE [boot EXCEPT !.pc[t] = IF boot.env["COLOR_EYRE"] = "1"
                                            THEN "install" ELSE "store"]
          ELSE IF boot.hooks = 0
          THEN [boot EXCEPT !.hooks = t, !.installs = @ + 1, !.pc[t] = "store"]
          ELSE [boot EXCEPT !.installs = @ + 1, !.pc[t] = "panicked",
                            !.cell = "INCOMPLETE"]
    /\ UNCHANGED NotBoot

\* the closure returns ColorEyreGuard(()): the value is written and the
\* state of the cell is swapped to COMPLETE; from here on every thread
\* passes the fast path
Store(t) ==
    /\ boot.pc[t] = "store"
    /\ boot' = [boot EXCEPT !.cell = "COMPLETE", !.value = t, !.pc[t] = "unpark"]
    /\ UNCHANGED NotBoot

\* after the swap the storing thread unparks the waiters
Unpark(t) ==
    /\ boot.pc[t] = "unpark"
    /\ boot' = [boot EXCEPT !.pc[t] = "return"]
    /\ UNCHANGED NotBoot

\* get_or_init returns to the storing thread with the value of the cell
Return(t) ==
    /\ boot.pc[t] = "return"
    /\ boot' = Observe(boot, t)
    /\ UNCHANGED NotBoot

NextInit ==
    \E t \in Threads :
        \/ GetOrInit(t)
        \/ Initialize(t)
        \/ Wake(t)
        \/ CheckVar(t)
        \/ SetVar(t)
        \/ Install(t)
        \/ Store(t)
        \/ Unpark(t)
        \/ Return(t)

SpecInit == InitInit /\ [][NextInit]_vars

----------------------------------------------------------------------------
(* SpecLazy: the closure-taking operations on one failure, with_section
   given stored and suppressed sections *)

NextLazy ==
    \/ WithNote
    \/ WithWarning
    \/ WithSuggestion
    \/ WithError
    \/ WithSectionCall(StoreArgs(n + 1), MaxCalls)
    \/ Format

SpecLazy == InitStore /\ [][NextLazy]_vars

----------------------------------------------------------------------------
(* SpecBuild: a section built call by call, then added and formatted *)

\* builder calls per behaviour of SpecBuild
MaxBuildSteps == 2

\* the texts a caller has at hand: some end or start in whitespace
RawBodies ==
    {<<>>, <<"d">>, <<"d", NL, "e">>, <<"d", NL, NL, "e">>, <<"d", NL>>,
     <<"d", SP, NL, "e", SP>>, <<SP, "d", SP>>, <<NL, "d">>,
     <<"\t", "d", SP, "e", "\t", NL>>, <<"\f", "d", "U+000B">>,
     <<"U+00A0", "d", "U+3000">>}

\* the bodies a caller passes: a text as it is, or .trim().to_string()
BuildBodies == RawBodies \cup {trim(b) : b \in RawBodies}

InitBuild ==
    /\ res = Err(into(PlainError(Msg), FirstCapture))
    /\ calls = 0
    /\ captures = 1
    /\ unix = TRUE
    /\ phase = "drafting"
    /\ out = <<>>
    /\ n = 0
    /\ last = [op |-> "from", arg |-> Built(<<Tag(1)>>, <<>>), st |-> NoStatus]
    /\ fmtenv = NoEnv
    /\ draft = Section_from(Str(<<Tag(1)>>))
    /\ evals = 0
    /\ hw = NoWriter
    /\ hist = NoHist
    /\ boot = NoBoot

\* draft.body(b)
BuildBody ==
    /\ phase = "drafting" /\ Len(last.arg.steps) < MaxBuildSteps
    /\ \E b \in BuildBodies :
          /\ draft' = body(draft, Str(b))
          /\ last' = [op |-> "body",
                      arg |-> Built(last.arg.h, Append(last.arg.steps, BodyStep(b))),
                      st |-> NoStatus]
    /\ UNCHANGED <<res, calls, captures, unix, phase, out, n, fmtenv, evals, hw, hist, boot>>

\* draft.skip_if(|| c): the predicate is called once, in the call
BuildSkipIf ==
    /\ phase = "drafting" /\ Len(last.arg.steps) < MaxBuildSteps
    /\ \E c \in BOOLEAN :
          /\ draft' = skip_if(draft, c)
          /\ last' = [op |-> "skip_if",
                      arg |-> Built(last.arg.h, Append(last.arg.steps, SkipStep(c))),
                      st |-> NoStatus]
    /\ evals' = evals + 1
    /\ UNCHANGED <<res, calls, captures, unix, phase, out, n, fmtenv, hw, hist, boot>>

\* Err(report).section(draft)
AddDraft ==
    /\ phase = "drafting"
    /\ Returned(section(res, draft, NoCapture), "section", last.arg, NoStatus)
    /\ phase' = "building"

NextBuild ==
    \/ BuildBody
    \/ BuildSkipIf
    \/ AddDraft
    \/ Format

SpecBuild == InitBuild /\ [][NextBuild]_vars

----------------------------------------------------------------------------
(* SpecWriter: one header-gated writer over one sink, through scopes *)

\* ready / in_progress / write_str calls per behaviour of SpecWriter
MaxWriterSteps == 4

WriterHeader == <<"H:">>

Chunks == {<<>>, <<"a">>, <<"b", NL>>}

ReadyEvent == [k |-> "ready", s |-> <<>>]
InProgressEvent == [k |-> "in_progress", s |-> <<>>]
WriteEvent(s) == [k |-> "write", s |-> s]

InitWriter ==
    /\ res = Err(PlainError(Msg))
    /\ calls = 0
    /\ captures = 0
    /\ unix = TRUE
    /\ phase = "writing"
    /\ out = <<>>
    /\ n = 0
    /\ last = NoCall
    /\ fmtenv = NoEnv
    /\ draft = NoSection
    /\ evals = 0
    /\ hw = WriterExt_header(Sink(NoCap), WriterHeader)
    /\ hist = NoHist
    /\ boot = NoBoot

\* w.ready()
Ready ==
    /\ phase = "writing" /\ Len(hist) < MaxWriterSteps
    /\ hw' = ready(hw)
    /\ hist' = Append(hist, ReadyEvent)
    /\ UNCHANGED <<res, calls, captures, unix, phase, out, n, last, fmtenv, draft, evals, boot>>

\* w.in_progress()
InProgress ==
    /\ phase = "writing" /\ Len(hist) < MaxWriterSteps
    /\ hw' = in_progress(hw)
    /\ hist' = Append(hist, InProgressEvent)
    /\ UNCHANGED <<res, calls, captures, unix, phase, out, n, last, fmtenv, draft, evals, boot>>

\* write_str(s) on the ReadyHeaderWriter the last ready / in_progress gave
WriteChunk ==
    /\ phase = "writing" /\ Len(hist) < MaxWriterSteps
    /\ hist # NoHist
    /\ \E s \in Chunks :
          /\ hw' = ReadyHeaderWriter_write_str(hw, s)
          /\ hist' = Append(hist, WriteEvent(s))
    /\ UNCHANGED <<res, calls, captures, unix, phase, out, n, last, fmtenv, draft, evals, boot>>

NextWriter ==
    \/ Ready
    \/ InProgress
    \/ WriteChunk

SpecWriter == InitWriter /\ [][NextWriter]_vars

----------------------------------------------------------------------------
(* SpecEnv: the environment block under every capture and verbosity *)

Verbosities == {"Minimal", "Medium", "Full"}

\* what the stack and span capture of a conversion can return
Captures ==
    {[bt |-> b, span |-> st] :
        b \in BOOLEAN, st \in {"none", "CAPTURED", "UNSUPPORTED", "EMPTY"}}

\* everything a format can read: panicking, panic_verbosity(), lib_verbosity()
Envs ==
    {[panicking |-> p, panic_v |-> pv, lib_v |-> lv] :
        p \in BOOLEAN, pv \in Verbosities, lv \in Verbosities}

InitEnv ==
    /\ res \in {Err(into(PlainError(Msg), cap)) : cap \in Captures}
    /\ calls = 0
    /\ captures = 1
    /\ unix = TRUE
    /\ phase = "building"
    /\ out = <<>>
    /\ n = 0
    /\ last = NoCall
    /\ fmtenv = NoEnv
    /\ draft = NoSection
    /\ evals = 0
    /\ hw = NoWriter
    /\ hist = NoHist
    /\ boot = NoBoot

\* format!("{}", EnvSection { bt_captured, span_trace }) of the report
FormatEnvSection ==
    /\ phase = "building"
    /\ fmtenv' \in Envs
    /\ out' = Written(EnvSection_fmt(res.e.handler.backtrace,
                                     res.e.handler.span_trace, fmtenv'.panicking,
                                     fmtenv'.panic_v, fmtenv'.lib_v, Sink(NoCap)))
    /\ phase' = "formatted"
    /\ UNCHANGED <<res, calls, captures, unix, n, last, draft, evals, hw, hist, boot>>

NextEnv == FormatEnvSection

SpecEnv == InitEnv /\ [][NextEnv]_vars

----------------------------------------------------------------------------
(* SpecSpan: the span trace of the report and the environment block, for
   every status of the span trace *)

\* format!("{}", FormattedSpanTrace(span_trace)) of a report that has one
FormatSpanTrace ==
    /\ phase = "building"
    /\ res.e.handler.span_trace # "none"
    /\ out' = Written(FormattedSpanTrace_fmt(res.e.handler.span_trace, Sink(NoCap)))
    /\ phase' = "span formatted"
    /\ UNCHANGED <<res, calls, captures, unix, n, last, fmtenv, draft, evals, hw, hist, boot>>

NextSpan ==
    \/ FormatEnvSection
    \/ FormatSpanTrace

SpecSpan == InitEnv /\ [][NextSpan]_vars

----------------------------------------------------------------------------
(* SpecSink: the header-gated writer, a section and the environment block
   over a sink that refuses text beyond its capacity *)

\* largest capacity of the sink under the header-gated writer
MaxSinkCap == 3

\* the sections rendered into the bounded sink
SinkSections ==
    {Section_from(Str(<<"t1">>)),
     body(Section_from(Str(<<"t1">>)), Str(<<"d", NL, "e">>)),
     body(Section_from(Str(<<"t1">>)), Str(<<>>)),
     Section_order(Section_from(HelpInfo("Note", <<"t1">>)), "AfterBackTrace")}

InitSink ==
    /\ res = Err(PlainError(Msg))
    /\ calls = 0
    /\ captures = 0
    /\ unix = TRUE
    /\ phase = "writing"
    /\ out = <<>>
    /\ n = 0
    /\ last = NoCall
    /\ fmtenv = NoEnv
    /\ draft = NoSection
    /\ evals = 0
    /\ hw \in {WriterExt_header(Sink(cap), WriterHeader) : cap \in 0..MaxSinkCap}
    /\ hist = NoHist
    /\ boot = NoBoot

\* ready / in_progress / write_str while no write has failed
SinkReady == ~Failed(hw) /\ Ready
SinkInProgress == ~Failed(hw) /\ InProgress
SinkWrite == ~Failed(hw) /\ WriteChunk

\* write!(sink, "{:?}", section) for a sink of every capacity up to the
\* length of the section's text
RenderSection ==
    /\ phase = "writing" /\ hist = NoHist
    /\ \E sec \in SinkSections :
          \E cap \in 0..Len(SectionText(sec)) :
              /\ draft' = sec
              /\ hw' = Section_fmt(sec, Sink(cap))
    /\ phase' = "section rendered"
    /\ UNCHANGED <<res, calls, captures, unix, out, n, last, fmtenv, evals, hist, boot>>

\* the text of the environment block in an unbounded sink
EnvText(c, e) ==
    Written(EnvSection_fmt(c.bt, c.span, e.panicking, e.panic_v, e.lib_v,
                           Sink(NoCap)))

\* write!(sink, "{}", EnvSection { .. }) for a sink of every capacity up to
\* the length of the block's text
RenderEnv ==
    /\ phase = "writing" /\ hist = NoHist
    /\ \E c \in Captures, e \in Envs :
          \E cap \in 0..Len(EnvText(c, e)) :
              /\ res' = Err(into(PlainError(Msg), c))
              /\ fmtenv' = e
              /\ hw' = EnvSection_fmt(c.bt, c.span, e.panicking, e.panic_v,
                                      e.lib_v, Sink(cap))
    /\ phase' = "env rendered"
    /\ UNCHANGED <<calls, captures, unix, out, n, last, draft, evals, hist, boot>>

NextSink ==
    \/ SinkReady
    \/ SinkInProgress
    \/ SinkWrite
    \/ RenderSection
    \/ RenderEnv

SpecSink == InitSink /\ [][NextSink]_vars

----------------------------------------------------------------------------
(* SpecOutput: context_from with every kind of source *)

\* the captured streams of a process: empty, text, bytes that are no UTF-8
Streams ==
    {[stdout |-> <<>>, stderr |-> <<>>],
     [stdout |-> <<"o1", NL, "o2">>, stderr |-> <<BadByte, "e1">>],
     [stdout |-> <<BadByte>>, stderr |-> <<>>]}

Outputs(isUnix) ==
    {Output(st, io.stdout, io.stderr) : st \in Statuses(isUnix), io \in Streams}

Commands == {Command(<<"\"ls\"">>), Command(<<"\"git\"", SP, "\"status\"">>)}

\* the effect of a context_from call on the Result in flight
ContextFrom(op, source) ==
    /\ phase = "building" /\ n < MaxCtxCalls
    /\ \E cap \in CapturesFor(res) :
          LET r == Result_context_from(res, source, cap, unix)
          IN /\ res' = IF r.panicked THEN res ELSE r.res
             /\ phase' = IF r.panicked THEN "panicked" ELSE phase
             /\ captures' = captures +
                   (IF res.kind = "Err" /\ ~res.e.isReport THEN 1 ELSE 0)
             /\ last' = [op |-> op, arg |-> NoArg, st |-> source]
    /\ n' = n + 1
    /\ UNCHANGED <<calls, unix, out, fmtenv, draft, evals, hw, hist, boot>>

ContextFromOutput ==
    \E source \in Outputs(unix) : ContextFrom("context_from_output", source)

ContextFromCommand ==
    \E source \in Commands : ContextFrom("context_from_command", source)

NextOutput ==
    \/ ContextFromStatus
    \/ ContextFromOutput
    \/ ContextFromCommand
    \/ Format

SpecOutput == InitCtx /\ [][NextOutput]_vars

----------------------------------------------------------------------------
(* Properties of chains of Help calls (Spec) *)

\* the sections of the store of the current failure
Stored == res.e.handler.sections

\* the token a stored section carries in its header
HeaderTag(sec) ==
    IF sec.header.t \in {"help", "error"} THEN sec.header.c[1]
    ELSE IF sec.header.t = "str" THEN sec.header.s[1]
    ELSE sec.header.header[1]

\* the aggregation call that brought a stored section
CallOf(sec) == CHOOSE k \in 1..9 : Tag(k) = HeaderTag(sec)

IsHelpEntry(sec) == sec.header.t = "help"

IsErrorEntry(sec) == sec.header.t = "error"

\* the class of an entry: help entry, error section or custom section
ClassOf(sec) ==
    IF IsHelpEntry(sec) THEN "help"
    ELSE IF IsErrorEntry(sec) THEN "error" ELSE "custom"

LazyOps ==
    {"with_note", "with_warning", "with_suggestion", "with_section", "with_error"}

SectionOps == {"section", "with_section"}

\* the tokens only the diagnostics block writes
DiagMarks ==
    {"<spantrace>", "<backtrace>", "RUST_BACKTRACE=1", "COLORBT_SHOW_HIDDEN=1",
     "RUST_BACKTRACE=full", "Unsupported."}

DiagPositions(text) == {i \in DOMAIN text : text[i] \in DiagMarks}

DiagFirst(text) ==
    CHOOSE i \in DiagPositions(text) : \A j \in DiagPositions(text) : i <= j

DiagLast(text) ==
    CHOOSE i \in DiagPositions(text) : \A j \in DiagPositions(text) : j <= i

\* C1: on Ok(v) every aggregation call returns Ok(v) with v unchanged,
\* creates and modifies no context store, and invokes no closure
C1_OkIdentity ==
    [][res.kind = "Ok" =>
          /\ res' = res
          /\ captures' = captures
          /\ calls' = calls]_vars

C1_Witness ==
    /\ res.kind = "Ok"
    /\ n >= 2
    /\ last.op \in LazyOps
    /\ calls = 0

\* C2: two entries of the same placement and kind class are rendered in
\* the order of the calls that appended them
C2_OrderPreserved ==
    phase = "formatted" =>
        \A i, j \in DOMAIN Stored :
            (/\ CallOf(Stored[i]) < CallOf(Stored[j])
             /\ ClassOf(Stored[i]) = ClassOf(Stored[j])
             /\ Stored[i].order = Stored[j].order)
            => /\ 0 < PosOf(HeaderTag(Stored[i]), out)
               /\ PosOf(HeaderTag(Stored[i]), out) < PosOf(HeaderTag(Stored[j]), out)

C2_Witness ==
    /\ phase = "formatted"
    /\ \E i, j, k, l \in DOMAIN Stored :
          /\ i < j /\ IsHelpEntry(Stored[i]) /\ IsHelpEntry(Stored[j])
          /\ k < l /\ ~IsHelpEntry(Stored[k]) /\ ~IsHelpEntry(Stored[l])
          /\ PosOf(HeaderTag(Stored[i]), out) < PosOf(HeaderTag(Stored[j]), out)
          /\ PosOf(HeaderTag(Stored[k]), out) < PosOf(HeaderTag(Stored[l]), out)

\* C3: in every rendered report the message comes first and a diagnostics
\* block is written; every help entry, its label included, comes after the
\* message and after every other stored entry and before the diagnostics
\* block, and every other stored entry comes after the message and before
\* the diagnostics block
C3_HelpBeforeDiagnostics ==
    phase = "formatted" =>
        /\ PosOf(Msg[1], out) = 1
        /\ DiagPositions(out) # {}
        /\ \A i \in DOMAIN Stored :
              LET at == PosOf(HeaderTag(Stored[i]), out)
              IN /\ 1 < at /\ at < DiagFirst(out)
                 /\ IsHelpEntry(Stored[i]) =>
                       /\ out[at - 4] = Stored[i].header.kind
                       /\ \A j \in DOMAIN Stored :
                             ~IsHelpEntry(Stored[j]) =>
                                 PosOf(HeaderTag(Stored[j]), out) < at

\* message, one custom section, a note, a warning and a suggestion, then
\* the diagnostics block
C3_Witness ==
    /\ phase = "formatted"
    /\ Len(Stored) = 4
    /\ ~IsHelpEntry(Stored[1])
    /\ IsHelpEntry(Stored[2]) /\ Stored[2].header.kind = "Note"
    /\ IsHelpEntry(Stored[3]) /\ Stored[3].header.kind = "Warning"
    /\ IsHelpEntry(Stored[4]) /\ Stored[4].header.kind = "Suggestion"
    /\ PosOf(Msg[1], out) < PosOf("t1", out)
    /\ PosOf("t1", out) < PosOf("t2", out)
    /\ PosOf("t2", out) < PosOf("t3", out)
    /\ PosOf("t3", out) < PosOf("t4", out)
    /\ PosOf("t4", out) < DiagFirst(out)

\* C4: whatever the interleaving of the calls, every help entry is rendered
\* after every custom section
C4_HelpAfterCustom ==
    phase = "formatted" =>
        \A i, j \in DOMAIN Stored :
            (IsHelpEntry(Stored[i]) /\ ~IsHelpEntry(Stored[j]))
            => /\ 0 < PosOf(HeaderTag(Stored[j]), out)
               /\ PosOf(HeaderTag(Stored[j]), out) < PosOf(HeaderTag(Stored[i]), out)

\* a note appended before a custom section
C4_Witness ==
    /\ phase = "formatted"
    /\ \E i, j \in DOMAIN Stored :
          /\ i < j
          /\ IsHelpEntry(Stored[i]) /\ Stored[i].header.kind = "Note"
          /\ ~IsHelpEntry(Stored[j])
          /\ PosOf(HeaderTag(Stored[j]), out) < PosOf(HeaderTag(Stored[i]), out)

----------------------------------------------------------------------------
(* Properties of section and with_section (SpecSection) *)

HasSkip(a) == \E i \in DOMAIN a.steps : a.steps[i].op = "skip_if"

\* some skip_if of the argument had a predicate returning true
Suppressing(a) ==
    \E i \in DOMAIN a.steps : a.steps[i].op = "skip_if" /\ a.steps[i].c

\* the steps of a recipe that are not skip_if
RECURSIVE WithoutSkips(_)
WithoutSkips(steps) ==
    IF steps = <<>> THEN <<>>
    ELSE IF Head(steps).op = "skip_if" THEN WithoutSkips(Tail(steps))
    ELSE <<Head(steps)>> \o WithoutSkips(Tail(steps))

\* the body text the argument gives the section: the last body attached
BodyOf(a) ==
    IF a.form = "headed" THEN a.b
    ELSE LET bodies == {i \in DOMAIN a.steps : a.steps[i].op = "body"}
         IN a.steps[CHOOSE i \in bodies : \A j \in bodies : j <= i].b

HasBody(a) ==
    a.form = "headed" \/ \E i \in DOMAIN a.steps : a.steps[i].op = "body"

\* the last call was section or with_section on a failure and stored its
\* argument
SectionStored ==
    /\ last.op \in SectionOps
    /\ res.kind = "Err"
    /\ ~Suppressing(last.arg)
    /\ Stored # <<>>

\* C5: adding a section whose skip_if predicate returned true, with or
\* without a body attached before or after, leaves the rendered report
\* as it was before the call
C5_SuppressedAddsNothing ==
    [][(/\ n' = n + 1
        /\ last'.op \in SectionOps
        /\ Suppressing(last'.arg)
        /\ res.kind = "Err")
       => /\ res'.kind = "Err"
          /\ \A env \in FormatEnvs :
                ReportText(res'.e, env.panicking, env.panic_v, env.lib_v)
                    = ReportText(into(res.e, LaterCapture), env.panicking,
                                 env.panic_v, env.lib_v)]_vars

\* a suppressed section with a body attached afterwards was added to a
\* report that already shows a section
C5_Witness ==
    /\ last.op \in SectionOps
    /\ last.arg.steps = <<SkipStep(TRUE), BodyStep(<<"d">>)>>
    /\ res.kind = "Err"
    /\ n = 2
    /\ Len(Stored) = 1

\* C6: a section whose skip_if predicate returned false is stored and
\* rendered as the same section built without skip_if
C6_NotSuppressedIsPlain ==
    (SectionStored /\ HasSkip(last.arg)) =>
        LET plain == Section_into(
                        ArgValue(Built(last.arg.h, WithoutSkips(last.arg.steps))))
            stored == Stored[Len(Stored)]
        IN /\ stored.header = plain.header
           /\ stored.body = plain.body
           /\ stored.order = plain.order
           /\ SectionText(stored) = SectionText(plain)

C6_Witness ==
    /\ SectionStored
    /\ last.arg.steps = <<BodyStep(<<"d">>), SkipStep(FALSE)>>
    /\ SectionText(Stored[Len(Stored)]) = <<last.arg.h[1], NL, SP, SP, SP, "d">>

\* the claim of C7 as the spec words it: any section with an empty body
\* renders nothing, and one with a non-empty body prints its header once
\* before the body
C7_EmptyBodyRendersNothing ==
    (SectionStored /\ HasBody(last.arg)) =>
        LET text == SectionText(Stored[Len(Stored)])
            tag == last.arg.h[1]
        IN IF BodyOf(last.arg) = <<>>
           THEN text = <<>>
           ELSE /\ Count(tag, text) = 1
                /\ PosOf(tag, text) < PosOf(BodyOf(last.arg)[1], text)

\* C7: a section built as body.header(h) whose body is the empty string
\* renders nothing, header included; a section whose body is non-empty
\* prints its header exactly once, before the first body text
C7_HeaderGatedEmptyBody ==
    (SectionStored /\ HasBody(last.arg)) =>
        LET text == SectionText(Stored[Len(Stored)])
            tag == last.arg.h[1]
        IN IF BodyOf(last.arg) = <<>>
           THEN last.arg.form = "headed" =>
                    /\ text = <<>>
                    /\ phase = "formatted" => Count(tag, out) = 0
           ELSE /\ Count(tag, text) = 1
                /\ PosOf(tag, text) = 1
                /\ PosOf(tag, text) < PosOf(BodyOf(last.arg)[1], text)
                /\ phase = "formatted" => Count(tag, out) = 1

\* both cases met: an empty header-gated section, and a two-line body
C7_Witness ==
    /\ SectionStored
    /\ phase = "formatted"
    /\ Len(Stored) = 2
    /\ Stored[1] = Section_from(IndentedSection(<<"t1">>, <<"d", NL, "e">>))
    /\ last.arg = Headed(<<"t2">>, <<>>)
    /\ Count("t1", out) = 1
    /\ Count("t2", out) = 0

----------------------------------------------------------------------------
(* Properties of context_from on an exit status (SpecCtx) *)

\* the decimal text of the exit codes of the model
CodeText(c) ==
    CASE c = 0 -> <<"0">>
      [] c = 2 -> <<"2">>
      [] c = 101 -> <<"1", "0", "1">>
      [] OTHER -> <<"-", "1">>

CodeForm(st) ==
    <<"command", SP, "exited", SP,
      IF st.success THEN "successfully" ELSE "unsuccessfully",
      SP, "with", SP, "status", SP, "code", SP>> \o CodeText(st.code.v)

SignalForm(st) ==
    <<"command", SP, "terminated", SP,
      IF st.success THEN "successfully" ELSE "unsuccessfully",
      SP, "by", SP, "signal", SP, "9">>

FallbackForm(st) ==
    <<"command", SP, "exited", SP,
      IF st.success THEN "successfully" ELSE "unsuccessfully",
      SP, "without", SP, "a", SP, "status", SP, "code", SP, "or", SP, "signal">>

\* C9: for a status with a code N the call appends one section headed
\* "Exit Status:" whose body is "command exited successfully with status
\* code N" on success and "command exited unsuccessfully with status code
\* N" otherwise
C9_StatusCodeForm ==
    (/\ last.op = "context_from"
     /\ last.st.code.some
     /\ res.kind = "Err") =>
        /\ phase # "panicked" => Len(Stored) = n
        /\ Stored # <<>>
        /\ LET sec == Stored[Len(Stored)]
           IN /\ sec.header.t = "isec"
              /\ sec.header.header = <<"Exit", SP, "Status:">>
              /\ sec.header.body = CodeForm(last.st)
              /\ sec.body = None
              /\ SectionText(sec)
                    = <<"Exit", SP, "Status:", NL, SP, SP, SP>> \o CodeForm(last.st)

\* code 0 with success, then code 2 with failure
C9_Witness ==
    /\ last.op = "context_from"
    /\ res.kind = "Err"
    /\ Len(Stored) = 2
    /\ Stored[1].header.body
          = <<"command", SP, "exited", SP, "successfully", SP, "with", SP,
              "status", SP, "code", SP, "0">>
    /\ Stored[2].header.body
          = <<"command", SP, "exited", SP, "unsuccessfully", SP, "with", SP,
              "status", SP, "code", SP, "2">>

\* C10: for every exit status the call completes normally and appends
\* exactly one "Exit Status:" section whose body is the status-code form
\* when there is a code, else the signal form when there is a signal, else
\* the fallback form
C10_OneOfThreeForms ==
    /\ phase # "panicked"
    /\ (last.op = "context_from" /\ res.kind = "Err") =>
          /\ Len(Stored) = n
          /\ LET sec == Stored[Len(Stored)]
             IN /\ sec.header.t = "isec"
                /\ sec.header.header = <<"Exit", SP, "Status:">>
                /\ sec.header.body =
                      IF last.st.code.some THEN CodeForm(last.st)
                      ELSE IF last.st.signal.some THEN SignalForm(last.st)
                      ELSE FallbackForm(last.st)

----------------------------------------------------------------------------
(* Properties of context_from with every kind of source (SpecOutput) *)

CtxOps == {"context_from", "context_from_output", "context_from_command"}

\* the store a call on the failure in flight starts from
StoredBefore == into(res.e, LaterCapture).handler.sections

\* text is the permissive decoding of bytes
Decodes(text, bytes) ==
    /\ Len(text) = Len(bytes)
    /\ \A i \in DOMAIN bytes :
          text[i] = IF bytes[i] = "xFF" THEN "U+FFFD" ELSE bytes[i]

\* the three sections a call with an output appends, in order
OutputSections(added, source) ==
    /\ Len(added) = 3
    /\ \A i \in 1..3 :
          /\ added[i].header.t = "isec"
          /\ added[i].body = None
          /\ added[i].order = "AfterErrMsgs"
    /\ added[1].header.header = <<"Exit", SP, "Status:">>
    /\ added[2].header.header = <<"Stdout:">>
    /\ added[3].header.header = <<"Stderr:">>
    /\ Decodes(added[2].header.body, source.stdout)
    /\ Decodes(added[3].header.body, source.stderr)

\* C11: context_from with a process output appends exactly three sections,
\* "Exit Status:", "Stdout:", "Stderr:" in this order, for every output,
\* empty streams included, and the streams are decoded without failing
C11_OutputThreeSections ==
    [][(/\ n' = n + 1
        /\ last'.op = "context_from_output"
        /\ res.kind = "Err")
       => /\ phase' # "panicked"
          /\ Len(Stored') = Len(StoredBefore) + 3
          /\ SubSeq(Stored', 1, Len(StoredBefore)) = StoredBefore
          /\ OutputSections(SubSeq(Stored', Len(StoredBefore) + 1, Len(Stored')),
                            last'.st)]_vars

\* C11 for the calls that return: the same three sections
C11_ThreeSectionsWhenReturned ==
    [][(/\ n' = n + 1
        /\ last'.op = "context_from_output"
        /\ res.kind = "Err"
        /\ phase' # "panicked")
       => /\ Len(Stored') = Len(StoredBefore) + 3
          /\ SubSeq(Stored', 1, Len(StoredBefore)) = StoredBefore
          /\ OutputSections(SubSeq(Stored', Len(StoredBefore) + 1, Len(Stored')),
                            last'.st)]_vars

\* the number of sections a source makes context_from append
Extracted(source) == IF "stdout" \in DOMAIN source THEN 3 ELSE 1

\* C12: context_from on a Result is a no-op on Ok(v) for every source, and
\* on Err(e) always returns Err carrying the same failure with the
\* extracted sections appended
C12_CtxNoOpOnOk ==
    [][(n' = n + 1 /\ last'.op \in CtxOps)
       => IF res.kind = "Ok"
          THEN /\ res' = res
               /\ captures' = captures
               /\ phase' = phase
          ELSE /\ phase' # "panicked"
               /\ res'.kind = "Err"
               /\ res'.e.msg = res.e.msg
               /\ Len(Stored') = Len(StoredBefore) + Extracted(last'.st)
               /\ SubSeq(Stored', 1, Len(StoredBefore)) = StoredBefore]_vars

\* C12 for the calls that return
C12_CtxNoOpOnOkWhenReturned ==
    [][(n' = n + 1 /\ last'.op \in CtxOps /\ phase' # "panicked")
       => IF res.kind = "Ok"
          THEN /\ res' = res
               /\ captures' = captures
               /\ phase' = phase
          ELSE /\ res'.kind = "Err"
               /\ res'.e.msg = res.e.msg
               /\ Len(Stored') = Len(StoredBefore) + Extracted(last'.st)
               /\ SubSeq(Stored', 1, Len(StoredBefore)) = StoredBefore]_vars

----------------------------------------------------------------------------
(* Properties of the environment block (SpecEnv) *)

\* the verbosity a format selects
Selected(e) == IF e.panicking THEN e.panic_v ELSE e.lib_v

SnippetHint ==
    <<"Run", SP, "with", SP, "RUST_BACKTRACE=full", SP, "to", SP, "include", SP,
      "source", SP, "snippets.">>

\* text t holds the sentence s
Holds(t, s) ==
    \E i \in 0..(Len(t) - Len(s)) : SubSeq(t, i + 1, i + Len(s)) = s

\* C13: the diagnostics block holds the source-snippet hint exactly when
\* the selected verbosity is below Full
C13_SnippetHintBelowFull ==
    phase = "formatted" =>
        /\ Holds(out, SnippetHint) <=> Selected(fmtenv) # "Full"
        /\ Count("RUST_BACKTRACE=full", out)
              = IF Selected(fmtenv) \in {"Minimal", "Medium"} THEN 1 ELSE 0

\* the hint at Medium, chosen by panic_verbosity while lib_verbosity is Full
C13_Witness ==
    /\ phase = "formatted"
    /\ fmtenv.panicking /\ fmtenv.panic_v = "Medium" /\ fmtenv.lib_v = "Full"
    /\ Holds(out, SnippetHint)

----------------------------------------------------------------------------
(* Properties of a section built call by call (SpecBuild) *)

\* the lines, each behind three spaces, one per row
RECURSIVE PrefixLines(_)
PrefixLines(lines) ==
    IF lines = <<>> THEN <<>>
    ELSE <<SP, SP, SP>> \o Head(lines)
         \o (IF Tail(lines) = <<>> THEN <<>> ELSE <<NL>> \o PrefixLines(Tail(lines)))

\* the header-only section whose text is the header, a line break, and
\* the lines of b behind three spaces
HeaderOnly(h, b) == Section_from(Str(h \o <<NL>> \o PrefixLines(SplitLines(b))))

\* the draft has a body of text b
DraftBody(b) == draft.body # None /\ draft.body = Str(b)

\* C14 as worded: for every header and every body, the section with the
\* body renders as the header-only section spelling header, line break
\* and three-space-prefixed lines
C14_BodyRendersAsHeaderOnly ==
    \A b \in BuildBodies :
        DraftBody(b) =>
            SectionText(draft) = SectionText(HeaderOnly(draft.header.s, b))

\* C14: a section with a body whose lines are all non-empty renders as the
\* header-only section spelling header, line break and
\* three-space-prefixed lines
C14_NonEmptyLinesRenderAsHeaderOnly ==
    \A b \in BuildBodies :
        (/\ DraftBody(b)
         /\ \A k \in DOMAIN SplitLines(b) : SplitLines(b)[k] # <<>>)
        => SectionText(draft) = SectionText(HeaderOnly(draft.header.s, b))

\* a two-line body was attached and renders behind three spaces per line
C14_Witness ==
    /\ last.op = "body"
    /\ DraftBody(<<"d", NL, "e">>)
    /\ SectionText(draft)
          = <<Tag(1), NL, SP, SP, SP, "d", NL, SP, SP, SP, "e">>

----------------------------------------------------------------------------
(* Properties of the context store (SpecStore) and of the outcome (Spec) *)

\* the entries a failure holds: none before its store exists
StoreOf(e) == IF e.isReport THEN e.handler.sections ELSE <<>>

\* the entry the call with record c, the k-th of the chain, appends
Appended(c, k) ==
    IF c.op \in SectionOps THEN Section_into(ArgValue(c.arg))
    ELSE IF c.op \in {"error", "with_error"} THEN ErrorSection(<<Tag(k)>>)
    ELSE HelpSection(IF c.op \in {"note", "with_note"} THEN "Note"
                     ELSE IF c.op \in {"warning", "with_warning"} THEN "Warning"
                     ELSE "Suggestion",
                     <<Tag(k)>>)

\* C15: each aggregation call on a failure leaves the earlier entries of
\* the store in place and in order and adds its own entry once at the end,
\* or nothing when the entry is suppressed; the store is created at most
\* once and its captures stay as they were; the entries of the store are
\* those of distinct calls in call order
C15_StoreGrowsInCallOrder ==
    [][(n' = n + 1 /\ res.kind = "Err")
       => /\ res'.kind = "Err" /\ res'.e.isReport
          /\ StoreOf(res'.e)
                = IF Suppressing(last'.arg) THEN StoreOf(res.e)
                  ELSE Append(StoreOf(res.e), Appended(last', n'))
          /\ res.e.isReport =>
                /\ res'.e.handler.backtrace = res.e.handler.backtrace
                /\ res'.e.handler.span_trace = res.e.handler.span_trace
          /\ captures' = 1
          /\ \A i, j \in DOMAIN StoreOf(res'.e) :
                i < j => CallOf(StoreOf(res'.e)[i]) < CallOf(StoreOf(res'.e)[j])]_vars

\* four calls, the second one suppressed: the store holds the entries of
\* the first, third and fourth call
C15_Witness ==
    /\ n = 4
    /\ res.kind = "Err"
    /\ Len(Stored) = 3
    /\ <<CallOf(Stored[1]), CallOf(Stored[2]), CallOf(Stored[3])>> = <<1, 3, 4>>
    /\ last.op = "with_suggestion"

\* C16: every aggregation call on Err(e) returns Err of a report with the
\* message of e
C16_ErrStaysSameErr ==
    [][(n' = n + 1 /\ res.kind = "Err")
       => /\ res'.kind = "Err"
          /\ res'.v = res.v
          /\ res'.e.msg = res.e.msg
          /\ res'.e.isReport]_vars

\* a chain of four calls on Err("boom") ended with a lazy call and is
\* still Err("boom")
C16_Witness ==
    /\ n = 4
    /\ last.op = "with_suggestion"
    /\ calls >= 1
    /\ res.kind = "Err"
    /\ res.e.msg = Msg
    /\ Len(Stored) = 4

\* the step is a call of skip_if on the draft
IsSkipIfStep ==
    /\ last'.op = "skip_if"
    /\ Len(last'.arg.steps) = Len(last.arg.steps) + 1

\* the step is a call of body on the draft
IsBodyStep ==
    /\ last'.op = "body"
    /\ Len(last'.arg.steps) = Len(last.arg.steps) + 1

\* what the newest call of the recipe was given
NewestStep(a) == a.steps[Len(a.steps)]

\* C17: a call of skip_if evaluates its predicate once, in the call, and
\* the placement after the call is SkipEntirely when it returned true and
\* the placement before the call otherwise; no other step, adding the
\* section and formatting the report included, evaluates a predicate or
\* changes the placement, and the section is stored exactly when its
\* placement is not SkipEntirely
C17_SkipIfEvaluatesOnceAtCall ==
    [][/\ IF IsSkipIfStep
          THEN /\ evals' = evals + 1
               /\ draft'.order = IF NewestStep(last'.arg).c THEN "SkipEntirely"
                                 ELSE draft.order
          ELSE /\ evals' = evals
               /\ draft'.order = draft.order
       /\ n' = n + 1
            => Len(StoreOf(res'.e))
                  = Len(StoreOf(res.e)) + (IF draft.order = "SkipEntirely" THEN 0 ELSE 1)]_vars

\* skip_if(|| true) then skip_if(|| false): two evaluations at the calls,
\* none while the section was added and the report formatted
C17_Witness ==
    /\ phase = "formatted"
    /\ last.arg.steps = <<SkipStep(TRUE), SkipStep(FALSE)>>
    /\ evals = 2
    /\ draft.order = "SkipEntirely"
    /\ Stored = <<>>

\* C18: a call of body keeps the placement and the header of the section
\* and sets its body to the argument
C18_BodyKeepsPlacementAndHeader ==
    [][IsBodyStep
       => /\ draft'.order = draft.order
          /\ draft'.header = draft.header
          /\ draft'.body = Str(NewestStep(last'.arg).b)]_vars

\* "t1".skip_if(|| true).body("d") is still suppressed
C18_Witness ==
    /\ last.op = "body"
    /\ last.arg.steps = <<SkipStep(TRUE), BodyStep(<<"d">>)>>
    /\ draft.order = "SkipEntirely"
    /\ draft.header = Str(<<Tag(1)>>)
    /\ DraftBody(<<"d">>)

----------------------------------------------------------------------------
(* Properties of the header-gated writer (SpecWriter) *)

\* index in history h of the call that opened the current scope
ScopeStart(h) ==
    CHOOSE i \in DOMAIN h :
        /\ h[i].k # "write"
        /\ \A j \in (i + 1)..Len(h) : h[j].k = "write"

\* the current scope of history h was opened by ready
Gated(h) == h[ScopeStart(h)].k = "ready"

\* the chunks of events i..j of history h, one after the other
RECURSIVE ChunksOf(_, _, _)
ChunksOf(h, i, j) ==
    IF i > j THEN <<>> ELSE h[i].s \o ChunksOf(h, i + 1, j)

\* the text the chunks of the current scope of history h add up to
ScopeChunks(h) == ChunksOf(h, ScopeStart(h) + 1, Len(h))

\* the last k tokens of text t
TailOf(t, k) == SubSeq(t, Len(t) - k + 1, Len(t))

\* the step is a write_str call
IsWriteStep == Len(hist') = Len(hist) + 1 /\ hist'[Len(hist')].k = "write"

\* C19: in a scope opened by ready, a write_str call adds to the sink the
\* chunk as given, behind the header when the chunk is non-empty and every
\* earlier chunk of the scope was empty; the sink then ends with the
\* chunks of the scope in order, behind one header when any of them was
\* non-empty and behind none otherwise
C19_HeaderOnceBeforeFirstChunk ==
    [][(IsWriteStep /\ Gated(hist))
       => LET s == hist'[Len(hist')].s
              all == ScopeChunks(hist')
              scope == IF all = <<>> THEN <<>> ELSE WriterHeader \o all
          IN /\ Written(hw')
                  = Written(hw)
                      \o (IF s # <<>> /\ ScopeChunks(hist) = <<>>
                          THEN WriterHeader ELSE <<>>)
                      \o s
             /\ Len(Written(hw')) >= Len(scope)
             /\ TailOf(Written(hw'), Len(scope)) = scope
             /\ Count(WriterHeader[1], scope) = IF all = <<>> THEN 0 ELSE 1]_vars

\* one scope given an empty chunk and two non-empty ones
C19_Witness ==
    /\ hist = <<ReadyEvent, WriteEvent(<<>>), WriteEvent(<<"a">>),
               WriteEvent(<<"b", NL>>)>>
    /\ Written(hw) = <<"H:", "a", "b", NL>>

\* number of scopes of history h opened by ready that were given a
\* non-empty chunk
RECURSIVE GatedScopesWithOutput(_, _, _)
GatedScopesWithOutput(h, gated, counted) ==
    IF h = <<>> THEN 0
    ELSE IF Head(h).k = "ready" THEN GatedScopesWithOutput(Tail(h), TRUE, FALSE)
    ELSE IF Head(h).k = "in_progress"
    THEN GatedScopesWithOutput(Tail(h), FALSE, FALSE)
    ELSE IF gated /\ ~counted /\ Head(h).s # <<>>
    THEN 1 + GatedScopesWithOutput(Tail(h), gated, TRUE)
    ELSE GatedScopesWithOutput(Tail(h), gated, counted)

\* C20: the sink holds the header once for every scope opened by ready
\* that was given a non-empty chunk, whatever the scopes before it did,
\* and the first non-empty chunk after ready is written behind the header
C20_HeaderOncePerScope ==
    /\ Count(WriterHeader[1], Written(hw)) = GatedScopesWithOutput(hist, FALSE, FALSE)
    /\ (/\ Len(hist) >= 2
        /\ hist[Len(hist) - 1].k = "ready"
        /\ hist[Len(hist)].k = "write"
        /\ hist[Len(hist)].s # <<>>)
       => TailOf(Written(hw), 1 + Len(hist[Len(hist)].s))
              = WriterHeader \o hist[Len(hist)].s

\* two scopes with output: the header was written in each
C20_Witness ==
    /\ hist = <<ReadyEvent, WriteEvent(<<"a">>), ReadyEvent, WriteEvent(<<"a">>)>>
    /\ Written(hw) = <<"H:", "a", "H:", "a">>

----------------------------------------------------------------------------
(* Properties of writing into a sink that can fail (SpecSink) *)

\* text x still fits into the sink under writer w
Fits(w, x) == Len(Written(w)) + Len(x) <= w.inner.cap

\* text t starts with text p
StartsWith(t, p) == Len(p) <= Len(t) /\ SubSeq(t, 1, Len(p)) = p

\* what a rendering into a sink of capacity cap has to leave, given the
\* text the same rendering writes into an unbounded sink
FirstErrorReturned(w, full) ==
    /\ Failed(w) <=> Len(full) > w.cap
    /\ StartsWith(full, Written(w))
    /\ ~Failed(w) => Written(w) = full

\* C21: write_str of the header-gated writer returns the sink's error on
\* the header without writing the chunk and without latching, returns the
\* sink's error on the chunk, and succeeds with header and chunk written
\* otherwise; rendering a section or the environment block fails exactly
\* when some write does not fit and leaves only text written before it
C21_SinkErrorPropagates ==
    [][/\ IsWriteStep =>
            LET s == hist'[Len(hist')].s
                gate == ~hw.started /\ s # <<>>
                head == IF gate THEN WriterHeader ELSE <<>>
            IN IF gate /\ ~Fits(hw, WriterHeader)
               THEN /\ Failed(hw')
                    /\ Written(hw') = Written(hw)
                    /\ ~hw'.started
               ELSE IF ~Fits(hw, head \o s)
               THEN /\ Failed(hw')
                    /\ Written(hw') = Written(hw) \o head
                    /\ hw'.started = (hw.started \/ gate)
               ELSE /\ ~Failed(hw')
                    /\ Written(hw') = Written(hw) \o head \o s
                    /\ hw'.started = (hw.started \/ gate)
       /\ phase' = "section rendered" /\ phase = "writing"
            => FirstErrorReturned(hw', SectionText(draft'))
       /\ phase' = "env rendered" /\ phase = "writing"
            => FirstErrorReturned(hw', EnvText([bt |-> res'.e.handler.backtrace,
                                                span |-> res'.e.handler.span_trace],
                                               fmtenv'))]_vars

\* the sink refused the header of a second scope: the chunk was not
\* written and the scope is not started
C21_Witness ==
    /\ hist = <<InProgressEvent, WriteEvent(<<"a">>), ReadyEvent, WriteEvent(<<"a">>)>>
    /\ Failed(hw)
    /\ Written(hw) = <<"a">>
    /\ ~hw.started

----------------------------------------------------------------------------
(* Properties of the parts of the environment block (SpecEnv) *)

EnableHint ==
    <<"Run", SP, "with", SP, "RUST_BACKTRACE=1", SP, "environment", SP,
      "variable", SP, "to", SP, "display", SP, "it.">>

FilterHint ==
    <<"Run", SP, "with", SP, "COLORBT_SHOW_HIDDEN=1", SP, "environment", SP,
      "variable", SP, "to", SP, "disable", SP, "frame", SP, "filtering.">>

OmittedLine == <<"Backtrace", SP, "omitted.">>

\* the lines of the block
OutLines == SplitLines(out)

\* C22 as worded: the block starts with a one-line hint, the hint on
\* enabling capture when no stack trace was captured and the hint on frame
\* filtering when one was, and holds no part of the other hint
C22_StartsWithOneLineHint ==
    phase = "formatted" =>
        IF res.e.handler.backtrace
        THEN /\ OutLines[1] = FilterHint
             /\ Count("RUST_BACKTRACE=1", out) = 0
        ELSE /\ OutLines[1] = EnableHint
             /\ Count("COLORBT_SHOW_HIDDEN=1", out) = 0

\* C22: with no stack trace captured the block starts with the line
\* "Backtrace omitted." and the hint on enabling capture on the next line;
\* with one captured it starts with the one-line hint on frame filtering;
\* the hint of the other case appears nowhere in the block
C22_HintByCapture ==
    phase = "formatted" =>
        IF res.e.handler.backtrace
        THEN /\ OutLines[1] = FilterHint
             /\ Count("RUST_BACKTRACE=1", out) = 0
             /\ Count("COLORBT_SHOW_HIDDEN=1", out) = 1
             /\ ~Holds(out, OmittedLine)
        ELSE /\ Len(OutLines) >= 2
             /\ OutLines[1] = OmittedLine
             /\ OutLines[2] = EnableHint
             /\ Count("COLORBT_SHOW_HIDDEN=1", out) = 0
             /\ Count("RUST_BACKTRACE=1", out) = 1

\* no stack trace captured, at Full verbosity with a captured span trace:
\* the block is the two lines of the omitted notice
C22_Witness ==
    /\ phase = "formatted"
    /\ ~res.e.handler.backtrace
    /\ res.e.handler.span_trace = "CAPTURED"
    /\ Selected(fmtenv) = "Full"
    /\ out = OmittedLine \o <<NL>> \o EnableHint

UnsupportedWarning ==
    <<"Warning:", SP, "SpanTrace", SP, "capture", SP, "is", SP, "Unsupported.", NL,
      "Ensure", SP, "that", SP, "you've", SP, "setup", SP, "an", SP, "error", SP,
      "layer", SP, "and", SP, "the", SP, "versions", SP, "match">>

\* the block of the same report and settings without a span trace
BlockWithoutSpan ==
    EnvText([bt |-> res.e.handler.backtrace, span |-> "none"], fmtenv)

\* C23: the span trace is written, indented, exactly when its status is
\* Captured; the block holds the Unsupported warning, on a line of its own
\* at the end, exactly when a span trace is present with status
\* Unsupported, and is otherwise the block of a report without span trace
C23_SpanTraceByStatus ==
    /\ phase = "span formatted" =>
          out = IF res.e.handler.span_trace = "CAPTURED"
                THEN <<SP, SP, "<spantrace>">> ELSE <<>>
    /\ phase = "formatted" =>
          /\ Count("<spantrace>", out) = 0
          /\ Holds(out, UnsupportedWarning) <=> res.e.handler.span_trace = "UNSUPPORTED"
          /\ out = IF res.e.handler.span_trace = "UNSUPPORTED"
                   THEN BlockWithoutSpan \o <<NL>> \o UnsupportedWarning
                   ELSE BlockWithoutSpan

\* a span trace with status Empty: the block at Full verbosity is the
\* backtrace hint alone
C23_Witness ==
    /\ phase = "formatted"
    /\ res.e.handler.span_trace = "EMPTY"
    /\ res.e.handler.backtrace
    /\ Selected(fmtenv) = "Full"
    /\ out = FilterHint

----------------------------------------------------------------------------
(* Properties of the capture (Spec) *)

\* the captured artifacts a report holds
Artifacts(e) == [bt |-> e.handler.backtrace, span |-> e.handler.span_trace]

\* C24: an aggregation call on a failure that is not yet a report makes it
\* a report holding what the one capture returned; a call on a report
\* captures nothing and leaves the captured artifacts as they are; a
\* failure is never captured for more than once
C24_CapturedOnce ==
    [][(n' = n + 1 /\ res.kind = "Err")
       => /\ res'.kind = "Err" /\ res'.e.isReport
          /\ IF res.e.isReport
             THEN /\ captures' = captures
                  /\ Artifacts(res'.e) = Artifacts(res.e)
             ELSE /\ captures' = captures + 1
                  /\ Artifacts(res'.e) = LaterCapture
                  /\ n = 0
          /\ captures' = 1]_vars

\* after four calls the report still holds the artifacts of the first
C24_Witness ==
    /\ n = 4
    /\ res.kind = "Err"
    /\ captures = 1
    /\ Artifacts(res.e) = LaterCapture
    /\ Len(Stored) = 4
    /\ last.op = "note"

----------------------------------------------------------------------------
(* Properties of the one-time initialisation (SpecInit) *)

\* C25: under every interleaving the closure of init_color_eyre is run by
\* at most one thread and the hooks are installed at most once; the cell
\* becomes complete only through that run and keeps its value; every
\* thread that has returned saw the value the one run installed
C25_InitialisedOnce ==
    [][/\ boot'.runs <= 1
       /\ boot'.installs <= 1
       /\ boot'.cell = "COMPLETE" =>
             /\ boot'.runs = 1
             /\ boot'.value \in Threads
             /\ boot'.installs = (IF boot'.env["COLOR_EYRE"] = "1" THEN 1 ELSE 0)
             /\ boot'.hooks = (IF boot'.env["COLOR_EYRE"] = "1" THEN boot'.value ELSE 0)
       /\ boot.cell = "COMPLETE" =>
             /\ boot'.cell = "COMPLETE"
             /\ boot'.value = boot.value
             /\ boot'.hooks = boot.hooks
       /\ \A t \in Threads :
             boot'.pc[t] = "done" =>
                 /\ boot'.cell = "COMPLETE"
                 /\ boot'.seen[t] = boot'.value
       /\ \A t \in Threads : boot'.pc[t] # "panicked"]_vars

\* all threads have returned; the second thread ran the closure and
\* installed the hooks, and the others saw its value
C25_Witness ==
    /\ \A t \in Threads : boot.pc[t] = "done" /\ boot.seen[t] = 2
    /\ boot.value = 2
    /\ boot.hooks = 2
    /\ boot.runs = 1
    /\ boot.installs = 1

----------------------------------------------------------------------------
(* Properties of the body as rendered (SpecBuild) *)

\* the lines, each non-empty one behind three spaces, one per row
RECURSIVE IndentNonEmpty(_)
IndentNonEmpty(lines) ==
    IF lines = <<>> THEN <<>>
    ELSE (IF Head(lines) = <<>> THEN <<>> ELSE <<SP, SP, SP>> \o Head(lines))
         \o (IF Tail(lines) = <<>> THEN <<>> ELSE <<NL>> \o IndentNonEmpty(Tail(lines)))

\* the draft with the end of its body trimmed
TrimmedDraft(b) == body(draft, Str(TrimEnd(b)))

\* C26 as worded: a section whose body ends in spaces or line breaks
\* renders as the section with the body trimmed at the end
C26_BodyTrimmedAtEnd ==
    \A b \in BuildBodies :
        DraftBody(b) => SectionText(draft) = SectionText(TrimmedDraft(b))

\* C26: a section renders its body as given, every non-empty line behind
\* the same three spaces and every line break and trailing space kept, so
\* a body ending in spaces or line breaks renders differently from the
\* body trimmed at the end, and a body a caller's trim would change
\* renders differently from the trimmed one
C26_BodyRenderedAsGiven ==
    \A b \in BuildBodies :
        DraftBody(b) =>
            /\ SectionText(draft)
                  = draft.header.s \o <<NL>> \o IndentNonEmpty(SplitLines(b))
            /\ TrimEnd(b) # b
                  => SectionText(draft) # SectionText(TrimmedDraft(b))
            /\ trim(b) # b
                  => SectionText(draft) # SectionText(body(draft, Str(trim(b))))

\* a body ending in a line break keeps it when rendered
C26_Witness ==
    /\ last.op = "body"
    /\ DraftBody(<<"d", NL>>)
    /\ SectionText(draft) = <<Tag(1), NL, SP, SP, SP, "d", NL>>
    /\ SectionText(TrimmedDraft(<<"d", NL>>)) = <<Tag(1), NL, SP, SP, SP, "d">>

----------------------------------------------------------------------------
(* Properties of what section and with_section store (SpecSection) *)

StoredPlacements == {"AfterErrMsgs", "AfterBackTrace"}

\* C27: after every call of section or with_section the store holds only
\* sections placed AfterErrMsgs or AfterBackTrace; a call given a section
\* placed SkipEntirely leaves the length of the store as it was, and every
\* other call makes it one longer
C27_NoSuppressedStored ==
    [][(n' = n + 1 /\ res.kind = "Err")
       => /\ res'.kind = "Err"
          /\ \A i \in DOMAIN StoreOf(res'.e) :
                StoreOf(res'.e)[i].order \in StoredPlacements
          /\ Len(StoreOf(res'.e))
                = Len(StoreOf(res.e))
                    + (IF Section_into(ArgValue(last'.arg)).order = "SkipEntirely"
                       THEN 0 ELSE 1)]_vars

\* a stored section, then with_section given a section with a body that
\* was suppressed afterwards: the store still holds the one section
C27_Witness ==
    /\ n = 2
    /\ res.kind = "Err"
    /\ last.op = "with_section"
    /\ last.arg.steps = <<BodyStep(<<"d">>), SkipStep(TRUE)>>
    /\ Len(Stored) = 1
    /\ Stored[1].order = "AfterErrMsgs"

----------------------------------------------------------------------------
(* Properties of the closures (SpecLazy) *)

\* C28: on a failure every call of with_note, with_warning,
\* with_suggestion or with_section invokes its closure once, also when the
\* section with_section is given is suppressed; formatting the report
\* invokes no closure, so the closures invoked are as many as the calls
C28_ClosureOncePerCall ==
    [][/\ (n' = n + 1 /\ res.kind = "Err" /\ last'.op \in LazyOps)
            => calls' = calls + 1
       /\ n' = n => calls' = calls
       /\ calls' = n']_vars

\* three calls, the last a with_section whose section was suppressed:
\* three closures were invoked and none while formatting
C28_Witness ==
    /\ phase = "formatted"
    /\ n = 3
    /\ calls = 3
    /\ last.op = "with_section"
    /\ Suppressing(last.arg)
    /\ Len(Stored) = 2

----------------------------------------------------------------------------
(* Properties of the separators of the environment block (SpecEnv) *)

\* the notice on the stack trace the block starts with
BacktraceNotice ==
    IF res.e.handler.backtrace THEN FilterHint
    ELSE OmittedLine \o <<NL>> \o EnableHint

\* C29: the block is the stack-trace notice, then a line break and the
\* source-snippet hint when the verbosity is below Full, then a line break
\* and the span-trace warning when the span trace is Unsupported; it never
\* starts or ends with a line break and holds no empty line
C29_SeparatorsGated ==
    phase = "formatted" =>
        /\ out = BacktraceNotice
                  \o (IF Selected(fmtenv) # "Full"
                      THEN <<NL>> \o SnippetHint ELSE <<>>)
                  \o (IF res.e.handler.span_trace = "UNSUPPORTED"
                      THEN <<NL>> \o UnsupportedWarning ELSE <<>>)
        /\ out[1] # NL
        /\ out[Len(out)] # NL
        /\ \A i \in 1..(Len(out) - 1) : ~(out[i] = NL /\ out[i + 1] = NL)
        /\ (Selected(fmtenv) = "Full" /\ res.e.handler.span_trace # "UNSUPPORTED")
              => out = BacktraceNotice

\* both optional parts present: each behind one line break
C29_Witness ==
    /\ phase = "formatted"
    /\ res.e.handler.backtrace
    /\ res.e.handler.span_trace = "UNSUPPORTED"
    /\ Selected(fmtenv) = "Minimal"
    /\ out = FilterHint \o <<NL>> \o SnippetHint \o <<NL>> \o UnsupportedWarning

----------------------------------------------------------------------------
(* Properties of chained skip_if calls (SpecBuild) *)

\* the skip_if calls of a recipe
SkipCalls(a) == {i \in DOMAIN a.steps : a.steps[i].op = "skip_if"}

\* C30: after any chain of body and skip_if calls the section is placed
\* SkipEntirely exactly when some predicate of the chain returned true,
\* wherever in the chain, and keeps its first placement otherwise; every
\* predicate of the chain has been evaluated
C30_SuppressionSticky ==
    /\ draft.order = "SkipEntirely" <=> Suppressing(last.arg)
    /\ ~Suppressing(last.arg) => draft.order = "AfterErrMsgs"
    /\ evals = Cardinality(SkipCalls(last.arg))

\* skip_if(|| true) followed by skip_if(|| false): still suppressed, both
\* predicates evaluated
C30_Witness ==
    /\ phase = "drafting"
    /\ last.op = "skip_if"
    /\ last.arg.steps = <<SkipStep(TRUE), SkipStep(FALSE)>>
    /\ draft.order = "SkipEntirely"
    /\ evals = 2

====
